---- MODULE Spec2Model ----
(***************************************************************************)
(* Sequential-thinking MCP server: the thought store (SequentialThinking-  *)
(* Server), the tool-call handler, and the analysers it drives             *)
(* (PromptAnalyzer, SemanticAnalyzer, ContradictionDetector,               *)
(* ReflectionEngine, IntelligenceMaximizationModule, GraphRenderer).       *)
(*                                                                         *)
(* A JavaScript string is a sequence of one-character strings, so that     *)
(* includes(), split(), replace() and charCodeAt() are computed rather     *)
(* than assumed.  A JavaScript value of unknown type (a field of the       *)
(* untyped request) is a record [t |-> typeof-like tag, v |-> payload].    *)
(* Floating-point quantities are fixed-point integers scaled by Scale;     *)
(* every threshold the model decides is decided on texts whose value is    *)
(* far from the threshold.                                                 *)
(***************************************************************************)
EXTENDS Integers, Sequences, FiniteSets, TLC

----------------------------------------------------------------------------
(* Bounds of the exploration *)

MaxThoughts == 3

----------------------------------------------------------------------------
(* JavaScript values *)

JUndef == [t |-> "undefined", v |-> 0]
JNum(n) == [t |-> "number", v |-> n]
JBool(b) == [t |-> "boolean", v |-> b]
JStr(s) == [t |-> "string", v |-> s]
JArr(a) == [t |-> "array", v |-> a]
JName(s) == [t |-> "name", v |-> s]

\* ToBoolean: undefined, 0, "" and false are falsy (NaN is not modelled)
Truthy(x) ==
  CASE x.t = "undefined" -> FALSE
    [] x.t = "number" -> x.v # 0
    [] x.t = "boolean" -> x.v
    [] x.t = "string" -> Len(x.v) > 0
    [] x.t = "name" -> TRUE
    [] x.t = "array" -> TRUE
    [] x.t = "object" -> TRUE
    [] x.t = "null" -> FALSE

\* typeof x
TypeOf(x) ==
  CASE x.t = "name" -> "string"
    [] x.t = "array" -> "object"
    [] x.t = "null" -> "object"
    [] OTHER -> x.t

\* x.length as far as "x.length > 0" and "x.length === 0" use it
\* (-1 stands for undefined: neither > 0 nor === 0)
JLength(x) ==
  CASE x.t = "string" -> Len(x.v)
    [] x.t = "array" -> Len(x.v)
    [] x.t = "name" -> 1
    [] OTHER -> -1

\* names every object inherits from Object.prototype: obj[name] is truthy
\* although obj has no own entry of that name
ObjectPrototypeKeys == {"constructor", "toString", "valueOf", "hasOwnProperty", "__proto__"}

----------------------------------------------------------------------------
(* Strings *)

LowerLetters == <<"a","b","c","d","e","f","g","h","i","j","k","l","m","n","o","p","q","r","s","t","u","v","w","x","y","z">>
UpperLetters == <<"A","B","C","D","E","F","G","H","I","J","K","L","M","N","O","P","Q","R","S","T","U","V","W","X","Y","Z">>
Digits == <<"0","1","2","3","4","5","6","7","8","9">>

SeqToSet(s) == {s[i] : i \in 1..Len(s)}
PosIn(s, x) == CHOOSE i \in 1..Len(s) : s[i] = x

IsUpper(c) == c \in SeqToSet(UpperLetters)
IsLower(c) == c \in SeqToSet(LowerLetters)
\* \w
IsWordChar(c) == IsUpper(c) \/ IsLower(c) \/ c \in SeqToSet(Digits) \/ c = "_"
\* \s
IsSpace(c) == c = " "

\* String.prototype.charCodeAt for the characters the model uses
CharCode(c) ==
  CASE IsLower(c) -> 96 + PosIn(LowerLetters, c)
    [] IsUpper(c) -> 64 + PosIn(UpperLetters, c)
    [] c \in SeqToSet(Digits) -> 47 + PosIn(Digits, c)
    [] c = " " -> 32
    [] c = "!" -> 33
    [] c = "'" -> 39
    [] c = "," -> 44
    [] c = "." -> 46
    [] c = ":" -> 58
    [] c = "?" -> 63
    [] c = "_" -> 95

toLowerCase(s) == [i \in 1..Len(s) |-> IF IsUpper(s[i]) THEN LowerLetters[PosIn(UpperLetters, s[i])] ELSE s[i]]

\* String.prototype.includes
includes(s, sub) == \E i \in 0..(Len(s) - Len(sub)) : SubSeq(s, i + 1, i + Len(sub)) = sub

startsWith(s, sub) == Len(s) >= Len(sub) /\ SubSeq(s, 1, Len(sub)) = sub
endsWith(s, sub) == Len(s) >= Len(sub) /\ SubSeq(s, Len(s) - Len(sub) + 1, Len(s)) = sub

\* String.prototype.split with a regular expression "one or more of seps"
split(s, seps) ==
  LET RECURSIVE go(_, _, _, _)
      go(i, acc, cur, inSep) ==
        IF i > Len(s) THEN Append(acc, cur)
        ELSE IF s[i] \in seps
             THEN IF inSep THEN go(i + 1, acc, cur, TRUE)
                           ELSE go(i + 1, Append(acc, cur), <<>>, TRUE)
             ELSE go(i + 1, acc, Append(cur, s[i]), FALSE)
  IN go(1, <<>>, <<>>, FALSE)

Whitespace == {" "}
SentenceEnd == {".", "!", "?"}

\* String.prototype.trim
trim(s) ==
  LET idx == {i \in 1..Len(s) : ~IsSpace(s[i])}
  IN IF idx = {} THEN <<>>
     ELSE SubSeq(s, CHOOSE i \in idx : \A j \in idx : i <= j,
                    CHOOSE i \in idx : \A j \in idx : i >= j)

\* s.replace(/[^\w\s]/g, '')
stripPunctuation(s) == SelectSeq(s, LAMBDA c : IsWordChar(c) \/ IsSpace(c))
\* s.replace(/[^\w]/g, '')
stripNonWord(s) == SelectSeq(s, IsWordChar)

\* prompt.split(/[.!?]+/).map(s => s.trim()).filter(s => s.length > 0)
sentencesOf(s) ==
  LET parts == split(s, SentenceEnd)
      trimmed == [i \in 1..Len(parts) |-> trim(parts[i])]
  IN SelectSeq(trimmed, LAMBDA p : Len(p) > 0)

\* the elements of s in the order of their first occurrence ([...new Set(s)])
RECURSIVE unique(_)
unique(s) ==
  IF s = <<>> THEN <<>>
  ELSE LET front == unique(SubSeq(s, 1, Len(s) - 1))
           last == s[Len(s)]
       IN IF last \in SeqToSet(front) THEN front ELSE Append(front, last)

\* Array.prototype.sort((a, b) => b.k - a.k): stable, descending in field k
RECURSIVE sortDescending(_)
sortDescending(s) ==
  IF s = <<>> THEN <<>>
  ELSE LET front == sortDescending(SubSeq(s, 1, Len(s) - 1))
           x == s[Len(s)]
           before == {i \in 1..Len(front) : front[i].k >= x.k}
           n == Cardinality(before)
       IN SubSeq(front, 1, n) \o <<x>> \o SubSeq(front, n + 1, Len(front))

\* Array.prototype.slice(0, n)
take(s, n) == SubSeq(s, 1, IF Len(s) < n THEN Len(s) ELSE n)

count(s, x) == Cardinality({i \in 1..Len(s) : s[i] = x})
Min(a, b) == IF a < b THEN a ELSE b
Max(a, b) == IF a > b THEN a ELSE b

\* Math.round of the non-negative fraction n / d (d > 0): floor(n/d + 1/2)
roundDiv(n, d) == (2 * n + d) \div (2 * d)

----------------------------------------------------------------------------
(* PromptAnalyzer: the profile of the prompt *)

goalIndicators == <<<<"g","o","a","l"," ","i","s">>, <<"o","b","j","e","c","t","i","v","e"," ","i","s">>, <<"a","i","m"," ","i","s">>, <<"p","u","r","p","o","s","e"," ","i","s">>, <<"t","r","y","i","n","g"," ","t","o">>,
                    <<"w","a","n","t"," ","t","o">>, <<"n","e","e","d"," ","t","o">>, <<"w","o","u","l","d"," ","l","i","k","e"," ","t","o">>, <<"g","o","a","l",":">>, <<"o","b","j","e","c","t","i","v","e",":">>>>

constraintIndicators == <<<<"m","u","s","t">>, <<"s","h","o","u","l","d">>, <<"n","e","e","d"," ","t","o">>, <<"h","a","v","e"," ","t","o">>, <<"r","e","q","u","i","r","e","d">>,
                          <<"n","e","c","e","s","s","a","r","y">>, <<"i","m","p","o","r","t","a","n","t">>, <<"e","s","s","e","n","t","i","a","l">>, <<"c","r","i","t","i","c","a","l">>,
                          <<"c","a","n","n","o","t">>, <<"c","a","n","'","t">>, <<"d","o","n","'","t">>, <<"s","h","o","u","l","d","n","'","t">>, <<"m","u","s","t","n","'","t">>>>

domainKeywords == <<
  [domain |-> "programming", keywords |-> <<<<"c","o","d","e">>, <<"p","r","o","g","r","a","m","m","i","n","g">>, <<"s","o","f","t","w","a","r","e">>, <<"d","e","v","e","l","o","p","m","e","n","t">>, <<"a","l","g","o","r","i","t","h","m">>, <<"f","u","n","c","t","i","o","n">>>>],
  [domain |-> "math", keywords |-> <<<<"m","a","t","h">>, <<"c","a","l","c","u","l","a","t","i","o","n">>, <<"f","o","r","m","u","l","a">>, <<"e","q","u","a","t","i","o","n">>, <<"n","u","m","e","r","i","c","a","l">>>>],
  [domain |-> "science", keywords |-> <<<<"s","c","i","e","n","c","e">>, <<"s","c","i","e","n","t","i","f","i","c">>, <<"e","x","p","e","r","i","m","e","n","t">>, <<"h","y","p","o","t","h","e","s","i","s">>, <<"t","h","e","o","r","y">>>>],
  [domain |-> "business", keywords |-> <<<<"b","u","s","i","n","e","s","s">>, <<"m","a","r","k","e","t">>, <<"s","t","r","a","t","e","g","y">>, <<"c","o","m","p","a","n","y">>, <<"p","r","o","d","u","c","t">>, <<"s","e","r","v","i","c","e">>>>],
  [domain |-> "writing", keywords |-> <<<<"w","r","i","t","e">>, <<"e","s","s","a","y">>, <<"a","r","t","i","c","l","e">>, <<"b","l","o","g">>, <<"c","o","n","t","e","n","t">>, <<"s","t","o","r","y">>>>],
  [domain |-> "design", keywords |-> <<<<"d","e","s","i","g","n">>, <<"l","a","y","o","u","t">>, <<"v","i","s","u","a","l">>, <<"U","I">>, <<"U","X">>, <<"i","n","t","e","r","f","a","c","e">>>>],
  [domain |-> "data", keywords |-> <<<<"d","a","t","a">>, <<"a","n","a","l","y","s","i","s">>, <<"s","t","a","t","i","s","t","i","c","s">>, <<"d","a","t","a","s","e","t">>, <<"v","i","s","u","a","l","i","z","a","t","i","o","n">>>>] >>

\* the domain names as strings of the program (calculateAspectRelevance reads them as text)
domainText(d) ==
  CASE d = "programming" -> <<"p","r","o","g","r","a","m","m","i","n","g">>
    [] d = "math" -> <<"m","a","t","h">>
    [] d = "science" -> <<"s","c","i","e","n","c","e">>
    [] d = "business" -> <<"b","u","s","i","n","e","s","s">>
    [] d = "writing" -> <<"w","r","i","t","i","n","g">>
    [] d = "design" -> <<"d","e","s","i","g","n">>
    [] d = "data" -> <<"d","a","t","a">>

highPriorityIndicators == <<<<"u","r","g","e","n","t">>, <<"i","m","m","e","d","i","a","t","e","l","y">>, <<"a","s","a","p">>, <<"c","r","i","t","i","c","a","l">>, <<"h","i","g","h"," ","p","r","i","o","r","i","t","y">>,
                            <<"a","s"," ","s","o","o","n"," ","a","s"," ","p","o","s","s","i","b","l","e">>, <<"e","m","e","r","g","e","n","c","y">>, <<"d","e","a","d","l","i","n","e">>>>
mediumPriorityIndicators == <<<<"i","m","p","o","r","t","a","n","t">>, <<"s","o","o","n">>, <<"t","i","m","e","l","y">>, <<"n","e","e","d","e","d">>, <<"s","i","g","n","i","f","i","c","a","n","t">>>>

complexityIndicators == <<<<"c","o","m","p","l","e","x">>, <<"c","o","m","p","l","i","c","a","t","e","d">>, <<"d","i","f","f","i","c","u","l","t">>, <<"c","h","a","l","l","e","n","g","i","n","g">>, <<"a","d","v","a","n","c","e","d">>,
                          <<"s","o","p","h","i","s","t","i","c","a","t","e","d">>, <<"i","n","t","r","i","c","a","t","e">>, <<"e","l","a","b","o","r","a","t","e">>, <<"c","o","m","p","r","e","h","e","n","s","i","v","e">>>>

promptStopWords == <<<<"a">>, <<"a","n">>, <<"t","h","e">>, <<"a","n","d">>, <<"o","r">>, <<"b","u","t">>, <<"i","n">>, <<"o","n">>, <<"a","t">>, <<"t","o">>,
                     <<"f","o","r">>, <<"w","i","t","h">>, <<"b","y">>, <<"a","b","o","u","t">>, <<"a","s">>>>

creativeIndicators == <<<<"c","r","e","a","t","e">>, <<"d","e","s","i","g","n">>, <<"g","e","n","e","r","a","t","e">>, <<"w","r","i","t","e">>, <<"c","o","m","p","o","s","e">>, <<"i","m","a","g","i","n","e">>, <<"s","t","o","r","y">>>>
analyticalIndicators == <<<<"a","n","a","l","y","z","e">>, <<"e","v","a","l","u","a","t","e">>, <<"a","s","s","e","s","s">>, <<"c","o","m","p","a","r","e">>, <<"c","o","n","t","r","a","s","t">>, <<"e","x","a","m","i","n","e">>>>
informationalIndicators == <<<<"e","x","p","l","a","i","n">>, <<"d","e","s","c","r","i","b","e">>, <<"w","h","a","t"," ","i","s">>, <<"h","o","w"," ","t","o">>, <<"i","n","f","o","r","m","a","t","i","o","n"," ","a","b","o","u","t">>, <<"t","e","l","l"," ","m","e"," ","a","b","o","u","t">>>>
technicalIndicators == <<<<"c","o","d","e">>, <<"p","r","o","g","r","a","m">>, <<"i","m","p","l","e","m","e","n","t">>, <<"f","u","n","c","t","i","o","n">>, <<"a","l","g","o","r","i","t","h","m">>, <<"d","e","b","u","g">>, <<"f","i","x">>>>

includesAny(s, indicators) == \E i \in 1..Len(indicators) : includes(s, indicators[i])
countIncluded(s, indicators) == Cardinality({i \in 1..Len(indicators) : includes(s, indicators[i])})

extractGoals(prompt) ==
  LET sentences == sentencesOf(prompt)
      goals == SelectSeq(sentences, LAMBDA s : includesAny(toLowerCase(s), goalIndicators))
  IN IF Len(goals) = 0 /\ Len(sentences) > 0 THEN <<sentences[1]>> ELSE goals

extractConstraints(prompt) ==
  SelectSeq(sentencesOf(prompt), LAMBDA s : includesAny(toLowerCase(s), constraintIndicators))

extractDomains(prompt) ==
  LET hit == SelectSeq(domainKeywords, LAMBDA d : includesAny(toLowerCase(prompt), d.keywords))
  IN [i \in 1..Len(hit) |-> hit[i].domain]

determinePriority(prompt) ==
  IF includesAny(toLowerCase(prompt), highPriorityIndicators) THEN "high"
  ELSE IF includesAny(toLowerCase(prompt), mediumPriorityIndicators) THEN "medium"
  ELSE "low"

estimateComplexity(prompt) ==
  LET wordCount == Len(split(prompt, Whitespace))
  IN IF includesAny(toLowerCase(prompt), complexityIndicators) THEN "complex"
     ELSE IF wordCount > 100 THEN "complex"
     ELSE IF wordCount > 30 THEN "medium"
     ELSE "simple"

\* goal.toLowerCase().replace(/[^\w\s]/g, '').split(/\s+/).filter(word => word.length > 3)
longWords(text) ==
  SelectSeq(split(stripPunctuation(toLowerCase(text)), Whitespace), LAMBDA w : Len(w) > 3)

extractKeywords(prompt) ==
  LET words == SelectSeq(longWords(prompt), LAMBDA w : w \notin SeqToSet(promptStopWords))
      distinct == unique(words)
      counted == [i \in 1..Len(distinct) |-> [word |-> distinct[i], k |-> count(words, distinct[i])]]
      top == take(sortDescending(counted), 10)
  IN [i \in 1..Len(top) |-> top[i].word]

extractEntities(prompt) ==
  LET words == split(prompt, Whitespace)
      cleaned == [i \in 1..Len(words) |-> stripNonWord(words[i])]
      idx == {i \in 2..Len(words) : Len(cleaned[i]) > 0 /\ IsUpper(cleaned[i][1])}
      RECURSIVE pick(_)
      pick(i) == IF i > Len(words) THEN <<>>
                 ELSE IF i \in idx THEN <<cleaned[i]>> \o pick(i + 1) ELSE pick(i + 1)
  IN unique(pick(1))

formatIndicators == <<<<"f","o","r","m","a","t",":">>, <<"i","n"," ","t","h","e"," ","f","o","r","m"," ","o","f">>, <<"a","s"," ","a">>, <<"o","u","t","p","u","t"," ","a","s">>, <<"r","e","s","u","l","t"," ","a","s">>,
                      <<"i","n"," ","m","a","r","k","d","o","w","n">>, <<"i","n"," ","j","s","o","n">>, <<"i","n"," ","h","t","m","l">>, <<"i","n"," ","c","s","v">>, <<"i","n"," ","t","a","b","l","e">>>>

\* String.prototype.indexOf, 0-based, -1 when absent
indexOf(s, sub) ==
  LET at == {i \in 0..(Len(s) - Len(sub)) : SubSeq(s, i + 1, i + Len(sub)) = sub}
  IN IF at = {} THEN -1 ELSE CHOOSE i \in at : \A j \in at : i <= j

\* s.split(/[.!?]/)[0]
upToSentenceEnd(s) ==
  LET ends == {i \in 1..Len(s) : s[i] \in SentenceEnd}
  IN IF ends = {} THEN s ELSE SubSeq(s, 1, (CHOOSE i \in ends : \A j \in ends : i <= j) - 1)

extractOutputFormat(prompt) ==
  LET promptLower == toLowerCase(prompt)
      found == SelectSeq(formatIndicators, LAMBDA ind : indexOf(promptLower, ind) # -1)
  IN IF Len(found) = 0 THEN JUndef
     ELSE LET index == indexOf(promptLower, found[1])
              afterIndicator == trim(SubSeq(prompt, index + Len(found[1]) + 1, Len(prompt)))
          IN JStr(trim(upToSentenceEnd(afterIndicator)))

determineTaskType(prompt) ==
  LET promptLower == toLowerCase(prompt)
      counts == << [type |-> "creative", k |-> countIncluded(promptLower, creativeIndicators)],
                   [type |-> "analytical", k |-> countIncluded(promptLower, analyticalIndicators)],
                   [type |-> "informational", k |-> countIncluded(promptLower, informationalIndicators)],
                   [type |-> "technical", k |-> countIncluded(promptLower, technicalIndicators)] >>
      sorted == sortDescending(counts)
  IN IF sorted[1].k > 0 /\ sorted[1].k > sorted[2].k THEN sorted[1].type ELSE "mixed"

analyzePrompt(prompt) ==
  [ originalPrompt |-> prompt,
    goals |-> extractGoals(prompt),
    constraints |-> extractConstraints(prompt),
    domains |-> extractDomains(prompt),
    expectedOutputFormat |-> extractOutputFormat(prompt),
    priority |-> determinePriority(prompt),
    complexity |-> estimateComplexity(prompt),
    keywords |-> extractKeywords(prompt),
    entities |-> extractEntities(prompt),
    taskType |-> determineTaskType(prompt) ]

\* thought.includes(keyword) counted over a list of keywords
keywordMatchCount(thoughtLower, words) ==
  Cardinality({i \in 1..Len(words) : includes(thoughtLower, words[i])})

\* the goal whose share of matched keywords is largest, as the fraction m / n
\* (0 / 1 when there is no goal, or none with a keyword)
bestGoalMatch(thoughtLower, goals) ==
  LET share(g) == LET gk == longWords(g)
                  IN IF Len(gk) > 0 THEN [m |-> keywordMatchCount(thoughtLower, gk), n |-> Len(gk)]
                     ELSE [m |-> 0, n |-> 1]
      shares == {share(goals[i]) : i \in 1..Len(goals)} \cup {[m |-> 0, n |-> 1]}
  IN CHOOSE a \in shares : \A b \in shares : a.m * b.n >= b.m * a.n

\* calculateAlignmentScore with keywordScore = keywordMatches * 2
calculateAlignmentScoreUncapped(thought, promptMetadata) ==
  LET thoughtLower == toLowerCase(thought)
      keywordMatches == keywordMatchCount(thoughtLower, promptMetadata.keywords)
      keywordScore == keywordMatches * 2
      best == bestGoalMatch(thoughtLower, promptMetadata.goals)
  IN roundDiv((5 + keywordScore) * best.n + 20 * best.m, 4 * best.n)

calculateAlignmentScore(thought, promptMetadata) ==
  LET thoughtLower == toLowerCase(thought)
      keywordMatches == keywordMatchCount(thoughtLower, promptMetadata.keywords)
      keywordScore == Min(10, keywordMatches * 2)
      best == bestGoalMatch(thoughtLower, promptMetadata.goals)
      \* ((5 + keywordScore) / 2 + 10 * m / n) / 2, rounded
  IN roundDiv((5 + keywordScore) * best.n + 20 * best.m, 4 * best.n)

\* PromptAnalyzer.calculateAspectRelevance: the rounded mean over the aspects
\* of 10 * matched / keywords (5 for an aspect without keywords, 5 for no aspect)
calculateAspectRelevance(thoughtLower, aspects) ==
  LET RECURSIVE total(_)
      \* the sum over aspects 1..i as a fraction [n, d]
      total(i) ==
        IF i = 0 THEN [n |-> 0, d |-> 1]
        ELSE LET rest == total(i - 1)
                 ak == longWords(aspects[i])
                 this == IF Len(ak) > 0
                         THEN [n |-> 10 * keywordMatchCount(thoughtLower, ak), d |-> Len(ak)]
                         ELSE [n |-> 5, d |-> 1]
             IN [n |-> rest.n * this.d + this.n * rest.d, d |-> rest.d * this.d]
  IN IF Len(aspects) = 0 THEN 5
     ELSE roundDiv(total(Len(aspects)).n, total(Len(aspects)).d * Len(aspects))

calculateRelevanceScores(thought, promptMetadata) ==
  LET thoughtLower == toLowerCase(thought)
  IN [ goals |-> calculateAspectRelevance(thoughtLower, promptMetadata.goals),
       constraints |-> calculateAspectRelevance(thoughtLower, promptMetadata.constraints),
       domains |-> calculateAspectRelevance(thoughtLower,
                     [i \in 1..Len(promptMetadata.domains) |-> domainText(promptMetadata.domains[i])]) ]

\* the alignment score below which checkForTopicDrift reports drift
DriftAlignmentThreshold == 4

\* checkForTopicDrift with the comparison of the score turned round
checkForTopicDriftAboveThreshold(thought, promptMetadata) ==
  LET alignmentScore == calculateAlignmentScore(thought, promptMetadata)
      missed == SelectSeq(promptMetadata.goals,
                  LAMBDA g : 10 * keywordMatchCount(toLowerCase(thought), longWords(g)) < 3 * Len(longWords(g)))
      corrections == [i \in 1..Len(missed) |-> [kind |-> "goal", goal |-> missed[i]]]
  IN IF alignmentScore > DriftAlignmentThreshold
     THEN [ hasDrift |-> TRUE,
            warning |-> [t |-> "warning", v |-> alignmentScore],
            corrections |-> JArr(IF Len(corrections) > 0 THEN corrections
                                 ELSE <<[kind |-> "generic", goal |-> <<>>]>>) ]
     ELSE [ hasDrift |-> FALSE, warning |-> JUndef, corrections |-> JUndef ]

checkForTopicDrift(thought, promptMetadata) ==
  LET alignmentScore == calculateAlignmentScore(thought, promptMetadata)
      missed == SelectSeq(promptMetadata.goals,
                  LAMBDA g : 10 * keywordMatchCount(toLowerCase(thought), longWords(g)) < 3 * Len(longWords(g)))
      corrections == [i \in 1..Len(missed) |-> [kind |-> "goal", goal |-> missed[i]]]
  IN IF alignmentScore < DriftAlignmentThreshold
     THEN [ hasDrift |-> TRUE,
            warning |-> [t |-> "warning", v |-> alignmentScore],
            corrections |-> JArr(IF Len(corrections) > 0 THEN corrections
                                 ELSE <<[kind |-> "generic", goal |-> <<>>]>>) ]
     ELSE [ hasDrift |-> FALSE, warning |-> JUndef, corrections |-> JUndef ]

analyzeThoughtAlignment(thought, promptMetadata) ==
  LET driftCheck == checkForTopicDrift(thought, promptMetadata)
  IN [ promptAlignment |-> calculateAlignmentScore(thought, promptMetadata),
       promptRelevance |-> calculateRelevanceScores(thought, promptMetadata),
       driftWarning |-> IF driftCheck.hasDrift THEN driftCheck.warning ELSE JUndef,
       suggestedCorrections |-> IF driftCheck.hasDrift THEN driftCheck.corrections ELSE JUndef ]

----------------------------------------------------------------------------
(* IntelligenceMaximizationModule: the recommended number of thoughts *)

clamp10(x) == Max(0, Min(10, x))

calculateConceptualComplexity(pm) ==
  clamp10(5 + Min(Len(pm.goals) - 1, 3) + Min(Len(pm.domains) - 1, 2)
            + (IF pm.taskType \in {"analytical", "technical"} THEN 1 ELSE 0))

calculateProceduralComplexity(pm) ==
  clamp10(5 + Min(Len(pm.constraints), 3)
            + (IF pm.taskType = "technical" THEN 2 ELSE IF pm.taskType = "analytical" THEN 1 ELSE 0)
            + (IF pm.priority = "high" THEN 1 ELSE 0))

\* twice the score: entities.length / 2 may be a half
calculateContextualComplexityTimes2(pm) ==
  Max(0, Min(20, 10 + Min(Len(pm.entities), 6)
                    + (IF pm.taskType = "mixed" THEN 4 ELSE IF pm.taskType = "creative" THEN 2 ELSE 0)))

\* of the domain names extractDomains can produce, "programming" and "business"
\* contain a medium domain and none contains a complex domain
calculateDomainComplexity(pm) ==
  clamp10(5 + (IF \E i \in 1..Len(pm.domains) : pm.domains[i] \in {"programming", "business"}
               THEN 1 ELSE 0))

baseThoughtCount(complexity) ==
  IF complexity = "medium" THEN 8 ELSE IF complexity = "complex" THEN 12 ELSE 5

\* Math.round(base * (1 + (avg - 5) / 10)) with avg = sum of the four scores / 4
recommendedThoughtCount(pm) ==
  LET twice == 2 * calculateConceptualComplexity(pm) + 2 * calculateProceduralComplexity(pm)
               + calculateContextualComplexityTimes2(pm) + 2 * calculateDomainComplexity(pm)
  IN roundDiv(baseThoughtCount(pm.complexity) * (twice + 40), 80)

----------------------------------------------------------------------------
(* SemanticAnalyzer: tokens, keywords, phrase relevance, drift *)

\* one unit of the fixed-point scale stands for 1 / Scale
Scale == 10 ^ 4

semanticStopwords == <<<<"t","h","e">>, <<"a","n","d">>, <<"o","r">>, <<"b","u","t">>, <<"i","n">>, <<"o","n">>, <<"a","t">>, <<"t","o">>, <<"f","o","r">>, <<"w","i","t","h">>,
                       <<"b","y">>, <<"i","s">>, <<"a","r","e">>, <<"w","a","s">>, <<"w","e","r","e">>, <<"t","h","i","s">>, <<"t","h","a","t">>, <<"t","h","e","s","e">>, <<"t","h","o","s","e">>>>

\* stopword.removeStopwords(tokenizer.tokenize(text.toLowerCase()))
tokenizeAndNormalize(text) ==
  SelectSeq(split(toLowerCase(text), Whitespace), LAMBDA w : w \notin SeqToSet(semanticStopwords))

\* SemanticAnalyzer.extractKeywords: the terms of the text by descending TF-IDF.
\* With the text as the only document idf = log(1/2) < 0, so a rarer term ranks first.
semanticKeywords(text) ==
  LET tokens == tokenizeAndNormalize(text)
      distinct == unique(tokens)
      terms == [i \in 1..Len(distinct) |-> [term |-> distinct[i], k |-> 0 - count(tokens, distinct[i])]]
      top == take(sortDescending(terms), 10)
  IN [i \in 1..Len(top) |-> top[i].term]

\* natural.LevenshteinDistance.  A row of the source's matrix is a sequence whose
\* element j + 1 is column j; fillRow completes row i from the row before it.
RECURSIVE fillRow(_, _, _, _, _)
fillRow(row, prev, i, str1, str2) ==
  LET j == Len(row)
  IN IF j > Len(str1) THEN row
     ELSE fillRow(Append(row, Min(Min(prev[j + 1] + 1, row[j] + 1),
                                  prev[j] + (IF str2[i] = str1[j] THEN 0 ELSE 1))),
                  prev, i, str1, str2)

\* the last row of the matrix, prev being row i - 1
RECURSIVE lastRow(_, _, _, _)
lastRow(prev, i, str1, str2) ==
  IF Len(prev) = Len(str1) + 1 /\ i <= Len(str2)
  THEN lastRow(fillRow(<<i>>, prev, i, str1, str2), i + 1, str1, str2)
  ELSE prev

LevenshteinDistance(str1, str2) ==
  IF str1 = str2 THEN 0
  ELSE IF Len(str1) = 0 THEN Len(str2)
  ELSE IF Len(str2) = 0 THEN Len(str1)
  ELSE lastRow([j \in 1..(Len(str1) + 1) |-> j - 1], 1, str1, str2)[Len(str1) + 1]

\* natural.PorterStemmer.stem
stem(word) ==
  IF endsWith(word, <<"i","n","g">>) THEN SubSeq(word, 1, Len(word) - 3)
  ELSE IF endsWith(word, <<"e","d">>) THEN SubSeq(word, 1, Len(word) - 2)
  ELSE IF endsWith(word, <<"s">>) THEN SubSeq(word, 1, Len(word) - 1)
  ELSE word

calculateStringSimilarity(str1, str2) ==
  LET maxLength == Max(Len(str1), Len(str2))
  IN IF maxLength = 0 THEN Scale
     ELSE Scale - (LevenshteinDistance(str1, str2) * Scale) \div maxLength

jaccardSimilarity(set1, set2) ==
  IF set1 \cup set2 = {} THEN 0
  ELSE (Cardinality(set1 \cap set2) * Scale) \div Cardinality(set1 \cup set2)

\* String.prototype.split(' '): every single space separates
splitSpaces(s) ==
  LET RECURSIVE go(_, _, _)
      go(i, acc, cur) ==
        IF i > Len(s) THEN Append(acc, cur)
        ELSE IF s[i] = " " THEN go(i + 1, Append(acc, cur), <<>>)
        ELSE go(i + 1, acc, Append(cur, s[i]))
  IN go(1, <<>>, <<>>)

calculatePhraseRelevance(phrase1, phrase2) ==
  LET words1 == splitSpaces(phrase1)
      words2 == splitSpaces(phrase2)
      overlapSim == jaccardSimilarity(SeqToSet(words1), SeqToSet(words2))
      stringSim == calculateStringSimilarity(phrase1, phrase2)
      pairSim(w1, w2) == IF stem(w1) = stem(w2) THEN (9 * Scale) \div 10
                         ELSE (7 * calculateStringSimilarity(stem(w1), stem(w2))) \div 10
      sims == {pairSim(words1[i], words2[j]) : i \in 1..Len(words1), j \in 1..Len(words2)} \cup {0}
      semanticSim == CHOOSE m \in sims : \A o \in sims : m >= o
  IN (4 * overlapSim + 3 * stringSim + 3 * semanticSim) \div 10

calculateContextualAspectRelevance(text, aspects) ==
  LET textTokens == tokenizeAndNormalize(text)
      sentences == sentencesOf(text)
      relevance(aspect) ==
        IF includes(toLowerCase(text), toLowerCase(aspect)) THEN Scale
        ELSE LET aspectTokens == tokenizeAndNormalize(aspect)
                 tokenMatches == Cardinality({i \in 1..Len(aspectTokens) : aspectTokens[i] \in SeqToSet(textTokens)})
                 tokenMatchRatio == IF Len(aspectTokens) > 0 THEN (tokenMatches * Scale) \div Len(aspectTokens) ELSE 0
                 sims == {calculatePhraseRelevance(aspect, sentences[i]) : i \in 1..Len(sentences)} \cup {0}
                 maxSentenceSimilarity == CHOOSE m \in sims : \A o \in sims : m >= o
             IN (6 * tokenMatchRatio + 4 * maxSentenceSimilarity) \div 10
      RECURSIVE total(_)
      total(i) == IF i = 0 THEN 0 ELSE total(i - 1) + relevance(aspects[i])
  IN IF Len(aspects) = 0 THEN Scale
     ELSE Min(Scale, total(Len(aspects)) \div Max(1, Len(aspects)))

\* the drift score above which detectTopicDrift reports drift: 0.55
driftThreshold == (55 * Scale) \div 100

\* SemanticAnalyzer.detectTopicDrift.  isNaN: the overlap ratio is 0 / 0 (the thought
\* has no keyword while the prompt has some), and NaN > 0.55 is false.
detectTopicDrift(thoughtText, promptMetadata) ==
  LET goalRelevance == calculateContextualAspectRelevance(thoughtText, promptMetadata.goals)
      keywordRelevance == calculateContextualAspectRelevance(thoughtText, promptMetadata.keywords)
      domainRelevance == calculateContextualAspectRelevance(thoughtText,
                           [i \in 1..Len(promptMetadata.domains) |-> domainText(promptMetadata.domains[i])])
      thoughtKeywords == semanticKeywords(thoughtText)
      promptKeywords == promptMetadata.keywords
      overlapCount == Cardinality({i \in 1..Len(thoughtKeywords) : thoughtKeywords[i] \in SeqToSet(promptKeywords)})
      smaller == Min(Len(thoughtKeywords), Len(promptKeywords))
      isNaN == Len(promptKeywords) > 0 /\ smaller = 0
      keywordOverlapRatio == IF Len(promptKeywords) > 0
                             THEN (IF smaller = 0 THEN 0 ELSE (overlapCount * Scale) \div smaller)
                             ELSE Scale
      driftScore == Scale - (4 * goalRelevance + 3 * keywordRelevance + domainRelevance + 2 * keywordOverlapRatio) \div 10
  IN [ isNaN |-> isNaN,
       driftScore |-> driftScore,
       hasDrift |-> ~isNaN /\ driftScore > driftThreshold ]

\* the relevance above which containsAspectContextually takes an aspect to be present: 0.65
presenceThreshold == (65 * Scale) \div 100

\* SemanticAnalyzer.containsAspectContextually(text, aspect)
containsAspectContextually(text, aspect) ==
  IF includes(toLowerCase(text), toLowerCase(aspect)) THEN TRUE
  ELSE calculateContextualAspectRelevance(text, <<aspect>>) > presenceThreshold

\* Array.prototype.indexOf, 0-based, -1 when absent
arrayIndexOf(array, element) ==
  LET at == {i \in 1..Len(array) : array[i] = element}
  IN IF at = {} THEN -1 ELSE (CHOOSE i \in at : \A j \in at : i <= j) - 1

\* SemanticAnalyzer.isImportantAspect(aspect, promptMetadata)
isImportantAspect(aspect, promptMetadata) ==
  LET isKeyword == \E i \in 1..Len(promptMetadata.keywords) :
                     LET kw == promptMetadata.keywords[i]
                     IN \/ includes(kw, aspect)
                        \/ includes(aspect, kw)
                        \/ calculatePhraseRelevance(kw, aspect) > (8 * Scale) \div 10
      isPrimaryGoal == arrayIndexOf(promptMetadata.goals, aspect) < 3
      containsPromptEntity == \E i \in 1..Len(promptMetadata.entities) :
                                LET entity == promptMetadata.entities[i]
                                IN \/ includes(aspect, entity)
                                   \/ calculatePhraseRelevance(entity, aspect) > (9 * Scale) \div 10
  IN isKeyword \/ isPrimaryGoal \/ containsPromptEntity

\* the weights of the goals, the constraints and the domains, in tenths
alignmentWeights(taskType) ==
  IF taskType = "technical" THEN [goal |-> 4, constraint |-> 4, domain |-> 2]
  ELSE IF taskType = "creative" THEN [goal |-> 6, constraint |-> 2, domain |-> 2]
  ELSE [goal |-> 5, constraint |-> 3, domain |-> 2]

\* SemanticAnalyzer.compareThoughtToPromptRequirements(thought, promptMetadata).
\* missingAspects and suggestedAdditions keep the joined lists as lists, under the
\* kind of the sentence that carries them.
compareThoughtToPromptRequirements(thought, promptMetadata) ==
  LET thoughtText == thought.thought
      domains == [i \in 1..Len(promptMetadata.domains) |-> domainText(promptMetadata.domains[i])]
      goalAlignment == calculateContextualAspectRelevance(thoughtText, promptMetadata.goals)
      constraintAlignment == calculateContextualAspectRelevance(thoughtText, promptMetadata.constraints)
      domainAlignment == calculateContextualAspectRelevance(thoughtText, domains)
      weight == alignmentWeights(promptMetadata.taskType)
      overallAlignment == (goalAlignment * weight.goal + constraintAlignment * weight.constraint
                           + domainAlignment * weight.domain) \div 10
      missing(aspect) == ~containsAspectContextually(thoughtText, aspect)
                         /\ isImportantAspect(aspect, promptMetadata)
      missingGoals == SelectSeq(promptMetadata.goals, missing)
      missingConstraints == SelectSeq(promptMetadata.constraints, missing)
      missingAspects ==
        (IF Len(missingGoals) > 0 THEN <<[kind |-> "Missing goals", aspects |-> missingGoals]>> ELSE <<>>)
        \o (IF Len(missingConstraints) > 0
            THEN <<[kind |-> "Missing constraints", aspects |-> missingConstraints]>> ELSE <<>>)
      suggestedAdditions ==
        (IF Len(missingGoals) > 0
         THEN <<[kind |-> "Consider addressing these goals", aspects |-> missingGoals]>> ELSE <<>>)
        \o (IF Len(missingConstraints) > 0
            THEN <<[kind |-> "Make sure to observe these constraints", aspects |-> missingConstraints]>>
            ELSE <<>>)
        \o (IF domainAlignment < (4 * Scale) \div 10 /\ Len(domains) > 0
            THEN <<[kind |-> "Consider using more terminology from", aspects |-> domains]>> ELSE <<>>)
  IN [ overallAlignment |-> overallAlignment,
       goalAlignment |-> goalAlignment,
       constraintAlignment |-> constraintAlignment,
       domainAlignment |-> domainAlignment,
       missingAspects |-> missingAspects,
       suggestedAdditions |-> IF Len(suggestedAdditions) > 0 THEN JArr(suggestedAdditions) ELSE JUndef ]

----------------------------------------------------------------------------
(* SemanticAnalyzer: similarity of two thoughts *)

\* the largest r with r * r <= n (Math.sqrt, truncated to the fixed-point grid)
RECURSIVE sqrtBetween(_, _, _)
sqrtBetween(lo, hi, n) ==
  IF lo >= hi THEN lo
  ELSE LET mid == (lo + hi + 1) \div 2
       IN IF mid * mid <= n THEN sqrtBetween(mid, hi, n) ELSE sqrtBetween(lo, mid - 1, n)

sqrt(n) == sqrtBetween(0, 46340, n)

RECURSIVE sum(_)
sum(s) == IF Len(s) = 0 THEN 0 ELSE s[1] + sum(Tail(s))

vectorDimension == 300
seedPrimes == <<31, 101, 257, 401, 631>>

\* the weight 1 / (i + 1) of a character at position i, in units of 1 / WeightUnit
\* (exact for words of at most ten characters)
WeightUnit == 2 * 2 * 2 * 3 * 3 * 5 * 7

\* getWordVector before normalisation, as the list of its additions:
\* vector[(char * seedPrimes[j] + i + j) % vectorDimension] += 1 / (i + 1)
wordVectorAdditions(word) ==
  [n \in 1..(Len(word) * Len(seedPrimes)) |->
    LET i == (n - 1) \div Len(seedPrimes)
        j == (n - 1) % Len(seedPrimes)
    IN [index |-> (CharCode(word[i + 1]) * seedPrimes[j + 1] + i + j) % vectorDimension,
        weight |-> WeightUnit \div (i + 1)]]

\* the dot product of two unnormalised word vectors, in units of 1 / WeightUnit^2
rawDotProduct(a, b) ==
  sum([n \in 1..Len(a) |->
        sum([m \in 1..Len(b) |-> IF a[n].index = b[m].index THEN a[n].weight * b[m].weight ELSE 0])])

\* the dot product of the normalised vectors of two words: dot / (m1 * m2), the
\* division by the product taken in an order that does not depend on the operands
\* (a word vector of magnitude 0, that of the empty word, stays 0)
wordDotProduct(word1, word2) ==
  LET a == wordVectorAdditions(word1)
      b == wordVectorAdditions(word2)
      magnitude1 == sqrt(rawDotProduct(a, a))
      magnitude2 == sqrt(rawDotProduct(b, b))
  IN IF magnitude1 = 0 \/ magnitude2 = 0 THEN 0
     ELSE IF word1 = word2 THEN Scale
     ELSE Min(Scale, ((rawDotProduct(a, b) \div Max(magnitude1, magnitude2)) * Scale)
                     \div Min(magnitude1, magnitude2))

\* the dot product of the sums of the word vectors of two token lists
tokensDotProduct(tokens1, tokens2) ==
  sum([n \in 1..Len(tokens1) |->
        sum([m \in 1..Len(tokens2) |-> wordDotProduct(tokens1[n], tokens2[m])])])

\* cosineSimilarity(buildThoughtVectors(thought1), buildThoughtVectors(thought2)):
\* a thought's vector is the normalised mean of its tokens' vectors
vectorCosineSimilarity(text1, text2) ==
  LET tokens1 == tokenizeAndNormalize(text1)
      tokens2 == tokenizeAndNormalize(text2)
      magnitude1 == sqrt(tokensDotProduct(tokens1, tokens1) * Scale)
      magnitude2 == sqrt(tokensDotProduct(tokens2, tokens2) * Scale)
  IN IF magnitude1 = 0 \/ magnitude2 = 0 THEN 0
     ELSE IF tokens1 = tokens2 THEN Scale
     ELSE Min(Scale, (((tokensDotProduct(tokens1, tokens2) * Scale) \div Max(magnitude1, magnitude2)) * Scale)
                     \div Min(magnitude1, magnitude2))

\* TfIdf.addDocument(tokens.join(' ')): the joined text is split again at white
\* space, which turns an empty token list into the one empty token
tfidfDocument(tokens) == IF Len(tokens) = 0 THEN << <<>> >> ELSE tokens

\* Math.log(n) for the document counts reached, in units of 1 / Scale
naturalLog == <<0, 6931, 10986, 13863, 16094, 17918>>

\* the number of bits of the significand of a number (the build's doubles have 53)
SignificandBits == 12

\* a number is significand * 2 ^ exponent with 2 ^ (SignificandBits - 1) <= significand
\* < 2 ^ SignificandBits, or zero
FloatZero == [significand |-> 0, exponent |-> 0]

bitLength(n) == CHOOSE b \in 1..30 : 2 ^ (b - 1) <= n /\ n < 2 ^ b

\* the number nearest to n * 2 ^ exponent (n > 0), ties to the even significand:
\* the rounding of every arithmetic operation
nearest(n, exponent) ==
  LET shift == bitLength(n) - SignificandBits
  IN IF shift <= 0 THEN [significand |-> n * 2 ^ (0 - shift), exponent |-> exponent + shift]
     ELSE LET kept == n \div 2 ^ shift
              rest == n % 2 ^ shift
              half == 2 ^ (shift - 1)
              rounded == IF rest > half \/ (rest = half /\ kept % 2 = 1) THEN kept + 1 ELSE kept
          IN IF rounded = 2 ^ SignificandBits
             THEN [significand |-> 2 ^ (SignificandBits - 1), exponent |-> exponent + shift + 1]
             ELSE [significand |-> rounded, exponent |-> exponent + shift]

\* the number for an integer n >= 0
float(n) == IF n = 0 THEN FloatZero ELSE nearest(n, 0)

\* a * b
times(a, b) ==
  IF a.significand = 0 \/ b.significand = 0 THEN FloatZero
  ELSE nearest(a.significand * b.significand, a.exponent + b.exponent)

\* a + b for a, b >= 0: exact when the exponents are near, the larger operand
\* when the smaller one is below a quarter of its last place
plus(a, b) ==
  IF a.significand = 0 THEN b
  ELSE IF b.significand = 0 THEN a
  ELSE IF a.exponent < b.exponent
  THEN IF b.exponent - a.exponent > SignificandBits + 1 THEN b
       ELSE nearest(b.significand * 2 ^ (b.exponent - a.exponent) + a.significand, a.exponent)
  ELSE IF a.exponent - b.exponent > SignificandBits + 1 THEN a
       ELSE nearest(a.significand * 2 ^ (a.exponent - b.exponent) + b.significand, b.exponent)

\* a / b for b > 0: the quotient to SignificandBits + 2 bits and one more bit
\* that says whether the division left a remainder
over(a, b) ==
  IF a.significand = 0 THEN FloatZero
  ELSE LET scaled == a.significand * 2 ^ (SignificandBits + 2)
           sticky == IF scaled % b.significand = 0 THEN 0 ELSE 1
       IN nearest(2 * (scaled \div b.significand) + sticky,
                  a.exponent - b.exponent - SignificandBits - 3)

\* Math.sqrt(a): the root of the significand times an even power of two, and
\* one more bit that says whether the root is inexact
squareRoot(a) ==
  IF a.significand = 0 THEN FloatZero
  ELSE LET up == IF (a.exponent - SignificandBits) % 2 = 0 THEN SignificandBits + 4
                 ELSE SignificandBits + 3
           scaled == a.significand * 2 ^ up
           root == sqrt(scaled)
           sticky == IF root * root = scaled THEN 0 ELSE 1
       IN nearest(2 * root + sticky, (a.exponent - up) \div 2 - 1)

\* a < b
lessThan(a, b) ==
  IF b.significand = 0 THEN FALSE
  ELSE IF a.significand = 0 THEN TRUE
  ELSE a.exponent < b.exponent \/ (a.exponent = b.exponent /\ a.significand < b.significand)

\* n / d for integers n >= 0 and d > 0
ratio(n, d) == over(float(n), float(d))

One == float(1)

\* the sum of the numbers s[1..n], added from the left as a loop with += adds them
RECURSIVE added(_, _)
added(s, n) == IF n = 0 THEN FloatZero ELSE plus(added(s, n - 1), s[n])

\* the size of natural.TfIdf.tfidf(term, documentIndex) for the two documents of
\* calculateTfidfSimilarity: tf * idf with tf = count / doc.length and
\* idf = Math.log(2 / (1 + containing)), which is 0 or log(2 / 3) < 0.  The products
\* val1 * val2 and val * val of the cosine do not depend on the sign.
tfidfSize(documents, term, documentIndex) ==
  LET doc == documents[documentIndex]
      containing == Cardinality({d \in 1..Len(documents) : term \in SeqToSet(documents[d])})
  IN times(ratio(count(doc, term), Len(doc)),
           ratio(naturalLog[1 + containing] - naturalLog[Len(documents)], Scale))

\* cosineSimilarityObjects(vec1, vec2) over the keys of {...vec1, ...vec2} in
\* their order of insertion
cosineSimilarityObjects(vec1, vec2) ==
  LET dotProduct == added([n \in 1..Len(vec1) |-> times(vec1[n], vec2[n])] \o <<>>, Len(vec1))
      magnitude1 == squareRoot(added([n \in 1..Len(vec1) |-> times(vec1[n], vec1[n])] \o <<>>, Len(vec1)))
      magnitude2 == squareRoot(added([n \in 1..Len(vec2) |-> times(vec2[n], vec2[n])] \o <<>>, Len(vec2)))
  IN IF magnitude1.significand = 0 \/ magnitude2.significand = 0 THEN FloatZero
     ELSE over(dotProduct, times(magnitude1, magnitude2))

\* calculateTfidfSimilarity: the terms are those of text1 in their order and
\* then the new ones of text2, and the vectors hold their tf * idf
calculateTfidfSimilarity(text1, text2) ==
  LET tokens1 == tokenizeAndNormalize(text1)
      tokens2 == tokenizeAndNormalize(text2)
      documents == <<tfidfDocument(tokens1), tfidfDocument(tokens2)>>
      terms == unique(tokens1 \o tokens2)
  IN cosineSimilarityObjects([n \in 1..Len(terms) |-> tfidfSize(documents, terms[n], 1)] \o <<>>,
                             [n \in 1..Len(terms) |-> tfidfSize(documents, terms[n], 2)] \o <<>>)

\* analyzeSemanticSimilarity: (cosineSim * 0.5) + (jaccardSim * 0.2) + (tfidfSim * 0.3)
analyzeSemanticSimilarity(text1, text2) ==
  plus(plus(times(ratio(vectorCosineSimilarity(text1, text2), Scale), ratio(5, 10)),
            times(ratio(jaccardSimilarity(SeqToSet(semanticKeywords(text1)),
                                          SeqToSet(semanticKeywords(text2))), Scale),
                  ratio(2, 10))),
       times(calculateTfidfSimilarity(text1, text2), ratio(3, 10)))

\* natural.TfIdf.tfidf(term, documentIndex) in units of 1 / (WeightUnit * Scale):
\* tf = count / doc.length, idf = Math.log(documents.length / (1 + containing))
tfidf(documents, term, documentIndex) ==
  LET doc == documents[documentIndex]
      containing == Cardinality({d \in 1..Len(documents) : term \in SeqToSet(documents[d])})
  IN ((count(doc, term) * WeightUnit) \div Len(doc))
     * (naturalLog[Len(documents)] - naturalLog[1 + containing])

\* natural.TfIdf.listTerms(documentIndex): the distinct terms of the document by
\* descending tf * idf
listTerms(documents, documentIndex) ==
  LET uniqueTerms == unique(documents[documentIndex])
  IN sortDescending([n \in 1..Len(uniqueTerms) |->
                       [term |-> uniqueTerms[n], k |-> tfidf(documents, uniqueTerms[n], documentIndex)]])

\* the terms listTerms gives for the documents 1..documentIndex, in that order
RECURSIVE listedTerms(_, _)
listedTerms(documents, documentIndex) ==
  IF documentIndex = 0 THEN <<>>
  ELSE LET front == listedTerms(documents, documentIndex - 1)
           listed == listTerms(documents, documentIndex)
       IN front \o [n \in 1..Len(listed) |-> listed[n].term]

\* extractTopicKeywords: the five terms of the cluster with the highest average
\* tf * idf over its documents (the totals here: the order of the averages is theirs)
extractTopicKeywords(thoughts) ==
  LET documents == [d \in 1..Len(thoughts) |-> tokenizeAndNormalize(thoughts[d].thought)] \o <<>>
      uniqueTerms == unique(listedTerms(documents, Len(documents)))
      terms == [n \in 1..Len(uniqueTerms) |->
                 [term |-> uniqueTerms[n],
                  k |-> sum([d \in 1..Len(documents) |-> tfidf(documents, uniqueTerms[n], d)])]]
      top == take(sortDescending(terms), 5)
  IN [n \in 1..Len(top) |-> top[n].term]

\* similarity above which two thoughts share a cluster
clusterThreshold == ratio(6, 10)

\* similarityMatrix[i][j] of clusterThoughtsByTopic
similarityMatrix(thoughts, i, j) ==
  IF i = j THEN One ELSE analyzeSemanticSimilarity(thoughts[i].thought, thoughts[j].thought)

\* thoughts.filter((t, j) => !processedThoughts.has(t.thoughtNumber)
\*                           && similarityMatrix[index][j] > 0.6), over the first j thoughts
RECURSIVE similarUnprocessed(_, _, _, _)
similarUnprocessed(thoughts, processedThoughts, index, j) ==
  IF j = 0 THEN <<>>
  ELSE LET front == similarUnprocessed(thoughts, processedThoughts, index, j - 1)
       IN IF /\ thoughts[j].thoughtNumber \notin processedThoughts
             /\ lessThan(clusterThreshold, similarityMatrix(thoughts, index, j))
          THEN Append(front, thoughts[j])
          ELSE front

\* topicKeywords.slice(0, 2).join('_'), or `topic_${clusterCount + 1}` without keywords
topicName(topicKeywords, clusterCount) ==
  IF Len(topicKeywords) = 0 THEN <<"t","o","p","i","c","_">> \o <<Digits[clusterCount + 2]>>
  ELSE IF Len(topicKeywords) = 1 THEN topicKeywords[1]
  ELSE topicKeywords[1] \o <<"_">> \o topicKeywords[2]

\* clusters[topicName] = cluster, the record of clusters as the list of its
\* entries: a name already in the record keeps its place and loses its cluster
setCluster(clusters, name, cluster) ==
  IF \E n \in 1..Len(clusters) : clusters[n].topicName = name
  THEN [n \in 1..Len(clusters) |->
          IF clusters[n].topicName = name THEN [clusters[n] EXCEPT !.cluster = cluster]
          ELSE clusters[n]] \o <<>>
  ELSE Append(clusters, [topicName |-> name, cluster |-> cluster])

\* one turn of thoughts.forEach in clusterThoughtsByTopic
clusterFrom(thoughts, state, index) ==
  IF thoughts[index].thoughtNumber \in state.processedThoughts THEN state
  ELSE LET cluster == similarUnprocessed(thoughts, state.processedThoughts, index, Len(thoughts))
       IN IF Len(cluster) = 0 THEN state
          ELSE [clusters |-> setCluster(state.clusters,
                                        topicName(extractTopicKeywords(cluster), state.clusterCount),
                                        cluster),
                clusterCount |-> state.clusterCount + 1,
                processedThoughts |-> state.processedThoughts
                                        \cup {cluster[n].thoughtNumber : n \in 1..Len(cluster)}]

\* thoughts.forEach over the first `index` thoughts
RECURSIVE clusteredUpTo(_, _)
clusteredUpTo(thoughts, index) ==
  IF index = 0 THEN [clusters |-> <<>>, clusterCount |-> 0, processedThoughts |-> {}]
  ELSE clusterFrom(thoughts, clusteredUpTo(thoughts, index - 1), index)

\* clusterThoughtsByTopic
clusterThoughtsByTopic(thoughts) == clusteredUpTo(thoughts, Len(thoughts)).clusters

----------------------------------------------------------------------------
(* ReflectionEngine: the assumptions of a thought *)

assumptionIndicators == <<<<"a","s","s","u","m","e">>, <<"a","s","s","u","m","i","n","g">>, <<"m","u","s","t"," ","b","e">>, <<"s","h","o","u","l","d"," ","b","e">>, <<"p","r","o","b","a","b","l","y">>,
                          <<"l","i","k","e","l","y">>, <<"a","l","w","a","y","s">>, <<"n","e","v","e","r">>, <<"e","v","e","r","y","o","n","e">>, <<"n","o","b","o","d","y">>, <<"c","l","e","a","r","l","y">>,
                          <<"o","b","v","i","o","u","s","l","y">>, <<"n","a","t","u","r","a","l","l","y">>, <<"o","f"," ","c","o","u","r","s","e">>>>

\* the alternatives of cleanAssumption's pattern, in the order the pattern tries them
assumptionPrefixes == <<<<"a","s","s","u","m","i","n","g">>, <<"w","e"," ","a","s","s","u","m","e">>, <<"i","t"," ","i","s"," ","a","s","s","u","m","e","d">>, <<"c","l","e","a","r","l","y">>, <<"o","b","v","i","o","u","s","l","y">>,
                        <<"n","a","t","u","r","a","l","l","y">>, <<"o","f"," ","c","o","u","r","s","e">>, <<"m","u","s","t"," ","b","e">>, <<"s","h","o","u","l","d"," ","b","e">>>>

cleanAssumption(text) ==
  LET trimmed == trim(text)
      lower == toLowerCase(trimmed)
      matching == {i \in 1..Len(assumptionPrefixes) : startsWith(lower, assumptionPrefixes[i])}
  IN IF matching = {} THEN trimmed
     ELSE LET first == CHOOSE i \in matching : \A j \in matching : i <= j
          IN trim(SubSeq(trimmed, Len(assumptionPrefixes[first]) + 1, Len(trimmed)))

getImplicitAssumptions(classification) ==
  CASE classification = JName("hypothesis") -> <<<<"T","h","e"," ","v","a","r","i","a","b","l","e","s"," ","b","e","i","n","g"," ","c","o","n","s","i","d","e","r","e","d"," ","a","r","e"," ","t","h","e"," ","m","o","s","t"," ","r","e","l","e","v","a","n","t"," ","o","n","e","s">>>>
    [] classification = JName("observation") -> <<<<"T","h","e"," ","o","b","s","e","r","v","a","t","i","o","n"," ","i","s"," ","r","e","p","r","e","s","e","n","t","a","t","i","v","e"," ","o","f"," ","t","h","e"," ","g","e","n","e","r","a","l"," ","c","a","s","e">>>>
    [] classification = JName("conclusion") -> <<<<"T","h","e"," ","a","v","a","i","l","a","b","l","e"," ","e","v","i","d","e","n","c","e"," ","i","s"," ","s","u","f","f","i","c","i","e","n","t"," ","f","o","r"," ","t","h","i","s"," ","c","o","n","c","l","u","s","i","o","n">>>>
    [] classification = JName("question") -> <<<<"T","h","i","s"," ","q","u","e","s","t","i","o","n"," ","a","d","d","r","e","s","s","e","s"," ","a"," ","s","i","g","n","i","f","i","c","a","n","t"," ","a","s","p","e","c","t"," ","o","f"," ","t","h","e"," ","p","r","o","b","l","e","m">>>>
    [] classification = JName("solution") -> <<<<"T","h","e"," ","s","o","l","u","t","i","o","n"," ","i","s"," ","f","e","a","s","i","b","l","e"," ","t","o"," ","i","m","p","l","e","m","e","n","t">>>>
    [] OTHER -> <<>>

identifyAssumptions(thought) ==
  LET sentences == split(toLowerCase(thought.thought), SentenceEnd)
      flagged == SelectSeq(sentences, LAMBDA sentence : includesAny(sentence, assumptionIndicators))
      cleaned == [i \in 1..Len(flagged) |-> cleanAssumption(flagged[i])]
      implicit == IF Truthy(thought.classification) THEN getImplicitAssumptions(thought.classification)
                  ELSE <<>>
  IN unique(cleaned \o implicit)

----------------------------------------------------------------------------
(* ContradictionDetector *)

opposingPairs == {<<"hypothesis", "conclusion">>, <<"question", "solution">>, <<"observation", "conclusion">>}

hasOpposingClassifications(thought1, thought2) ==
  /\ Truthy(thought1.classification)
  /\ Truthy(thought2.classification)
  /\ \/ <<thought1.classification.v, thought2.classification.v>> \in opposingPairs
     \/ <<thought2.classification.v, thought1.classification.v>> \in opposingPairs

negationWords == {<<"n","o","t">>, <<"n","e","v","e","r">>, <<"n","o">>, <<"c","a","n","n","o","t">>, <<"d","o","n","'","t">>, <<"d","o","e","s","n","'","t">>}

containsNegation(text) ==
  \E word \in SeqToSet(splitSpaces(toLowerCase(text))) : word \in negationWords

hasConflictingConclusions(thought1, thought2) ==
  /\ thought1.classification = JName("conclusion")
  /\ thought2.classification = JName("conclusion")
  /\ containsNegation(thought1.thought) # containsNegation(thought2.thought)

areAssumptionsConflicting(assumption1, assumption2) ==
  LET negated1 == startsWith(toLowerCase(assumption1), <<"n","o","t"," ">>)
      negated2 == startsWith(toLowerCase(assumption2), <<"n","o","t"," ">>)
      base1 == IF negated1 THEN SubSeq(assumption1, 5, Len(assumption1)) ELSE assumption1
      base2 == IF negated2 THEN SubSeq(assumption2, 5, Len(assumption2)) ELSE assumption2
  IN toLowerCase(base1) = toLowerCase(base2) /\ negated1 # negated2

\* the conflicting assumptions of thought1 (none when either thought has no list)
checkAssumptionConflicts(thought1, thought2) ==
  IF ~Truthy(thought1.assumptions) \/ ~Truthy(thought2.assumptions) THEN <<>>
  ELSE SelectSeq(thought1.assumptions.v,
                 LAMBDA assumption1 : \E i \in 1..Len(thought2.assumptions.v) :
                                         areAssumptionsConflicting(assumption1, thought2.assumptions.v[i]))

\* the similarity above which two thoughts are checked for contradictions: 0.5
contradictionSimilarity == ratio(5, 10)

\* detectContradiction: the explanation, or JUndef for null
detectContradiction(thought1, thought2) ==
  IF lessThan(contradictionSimilarity, analyzeSemanticSimilarity(thought1.thought, thought2.thought))
  THEN IF hasOpposingClassifications(thought1, thought2)
       THEN [t |-> "Opposing classifications", v |-> <<thought1.classification.v, thought2.classification.v>>]
       ELSE IF hasConflictingConclusions(thought1, thought2)
       THEN [t |-> "Conflicting conclusions detected", v |-> <<>>]
       ELSE IF Len(checkAssumptionConflicts(thought1, thought2)) > 0
       THEN [t |-> "Conflicting assumptions", v |-> checkAssumptionConflicts(thought1, thought2)]
       ELSE JUndef
  ELSE JUndef

\* checkContradictions without the skip of existing revisions
checkContradictionsComparingRevisions(newThought, existingThoughts) ==
  IF Truthy(newThought.isRevision) THEN <<>>
  ELSE LET compared == SelectSeq(existingThoughts,
                         LAMBDA existingThought :
                           /\ existingThought.thoughtNumber # newThought.thoughtNumber
                           /\ detectContradiction(newThought, existingThought) # JUndef)
       IN [i \in 1..Len(compared) |->
            [thoughtNumber |-> compared[i].thoughtNumber,
             explanation |-> detectContradiction(newThought, compared[i])]]

\* checkContradictions: the details (hasContradictions is "the details are not empty")
checkContradictions(newThought, existingThoughts) ==
  IF Truthy(newThought.isRevision) THEN <<>>
  ELSE LET compared == SelectSeq(existingThoughts,
                         LAMBDA existingThought :
                           /\ ~Truthy(existingThought.isRevision)
                           /\ existingThought.thoughtNumber # newThought.thoughtNumber
                           /\ detectContradiction(newThought, existingThought) # JUndef)
       IN [i \in 1..Len(compared) |->
            [thoughtNumber |-> compared[i].thoughtNumber,
             explanation |-> detectContradiction(newThought, compared[i])]]

----------------------------------------------------------------------------
(* SequentialThinkingServer: state *)

VARIABLES
  thoughtHistory,   \* ThoughtData[]: the thoughts in the order they were pushed
  branches,         \* Record<string, ThoughtData[]>: a function of the own keys
  toolUsageStats,   \* Record<string, ToolUsageStats>: a function of the own keys
  promptContext,    \* PromptContext: [metadata, originalPrompt]
  request,          \* the arguments of the last tool call
  response          \* the outcome of the last tool call

vars == <<thoughtHistory, branches, toolUsageStats, promptContext, request, response>>

JNull == [t |-> "null", v |-> 0]
JObj(fields) == [t |-> "object", v |-> fields]

\* the response before any call
NoResponse ==
  [ status |-> "none", error |-> "", thoughtNumber |-> 0, totalThoughts |-> 0,
    thoughtHistoryLength |-> 0, branches |-> {}, phase |-> JUndef, contradictions |-> JUndef,
    assumptions |-> JUndef, promptAlignment |-> JUndef, promptRelevance |-> JUndef,
    driftWarning |-> JUndef, suggestedCorrections |-> JUndef, suggestedNextPhase |-> JUndef,
    thoughtQuality |-> JUndef, insightValue |-> JUndef, goalCoverage |-> JUndef,
    promptRequirements |-> JUndef ]

Init ==
  /\ thoughtHistory = <<>>
  /\ branches = <<>>
  /\ toolUsageStats = <<>>
  /\ promptContext = [metadata |-> JNull, originalPrompt |-> JStr(<<>>)]
  /\ request = JUndef
  /\ response = NoResponse

----------------------------------------------------------------------------
(* SequentialThinkingServer.validateThoughtData *)

\* the message of the Error validateThoughtData throws, "none" when it returns
validationError(data) ==
  IF ~Truthy(data.thought) \/ TypeOf(data.thought) # "string"
  THEN "Invalid thought: must be a string"
  ELSE IF ~Truthy(data.thoughtNumber) \/ TypeOf(data.thoughtNumber) # "number"
  THEN "Invalid thoughtNumber: must be a number"
  ELSE IF ~Truthy(data.totalThoughts) \/ TypeOf(data.totalThoughts) # "number"
  THEN "Invalid totalThoughts: must be a number"
  ELSE IF TypeOf(data.nextThoughtNeeded) # "boolean"
  THEN "Invalid nextThoughtNeeded: must be a boolean"
  ELSE "none"

\* the ThoughtData validateThoughtData returns
validateThoughtData(data) ==
  [ thought |-> data.thought.v,
    thoughtNumber |-> data.thoughtNumber.v,
    totalThoughts |-> data.totalThoughts.v,
    nextThoughtNeeded |-> data.nextThoughtNeeded,
    isRevision |-> data.isRevision,
    revisesThought |-> data.revisesThought,
    branchFromThought |-> data.branchFromThought,
    branchId |-> data.branchId,
    phase |-> data.phase,
    dependencies |-> data.dependencies,
    toolsUsed |-> data.toolsUsed,
    quality |-> data.quality,
    insightValue |-> data.insightValue,
    classification |-> data.classification,
    contradictions |-> JUndef,
    assumptions |-> JUndef,
    promptAlignment |-> JUndef,
    promptRelevance |-> JUndef,
    driftWarning |-> JUndef,
    suggestedCorrections |-> JUndef ]

----------------------------------------------------------------------------
(* SequentialThinkingServer.processThought: the thought it builds *)

\* totalThoughts raised to the recommended thought count alone
adjustedTotalThoughtsFromEstimateOnly(validatedInput, context) ==
  IF context.metadata = JNull THEN validatedInput.totalThoughts
  ELSE Max(validatedInput.totalThoughts, recommendedThoughtCount(context.metadata.v))

\* totalThoughts after the two adjustments: raised to thoughtNumber, then (when
\* the prompt context is initialized) to the recommended thought count
adjustedTotalThoughts(validatedInput, context) ==
  LET raised == Max(validatedInput.totalThoughts, validatedInput.thoughtNumber)
  IN IF context.metadata = JNull THEN raised
     ELSE Max(raised, recommendedThoughtCount(context.metadata.v))

defaultPhase(validatedInput) ==
  IF Truthy(validatedInput.phase) THEN validatedInput.phase
  ELSE IF validatedInput.thoughtNumber = 1 THEN JName("Planning") ELSE JName("Execution")

\* validatedInput.contradictions is assigned when the detector reports some
withContradictions(validatedInput, contradictions) ==
  [validatedInput EXCEPT
     !.contradictions = IF Len(contradictions) > 0 THEN JArr(contradictions) ELSE JUndef]

\* the fields assigned from analyzeThoughtAlignment
withAlignment(validatedInput, alignmentData) ==
  [validatedInput EXCEPT
     !.promptAlignment = JNum(alignmentData.promptAlignment),
     !.promptRelevance = JObj(alignmentData.promptRelevance),
     !.driftWarning = alignmentData.driftWarning,
     !.suggestedCorrections = alignmentData.suggestedCorrections]

\* the prompt analysis runs when the prompt context is initialized
withPromptAnalysis(validatedInput, context) ==
  IF context.metadata = JNull THEN validatedInput
  ELSE withAlignment(validatedInput,
                     analyzeThoughtAlignment(validatedInput.thought, context.metadata.v))

\* the thought as processThought pushes it
enhancedThought(validatedInput, history, context) ==
  withPromptAnalysis(
    [withContradictions(validatedInput, checkContradictions(validatedInput, history)) EXCEPT
       !.totalThoughts = adjustedTotalThoughts(validatedInput, context),
       !.phase = defaultPhase(validatedInput),
       !.assumptions = JArr(identifyAssumptions(validatedInput))],
    context)

----------------------------------------------------------------------------
(* SequentialThinkingServer.processThought: after the thought is built *)

\* this.thoughtHistory.unshift(validatedInput)
pushFirst(history, thought) == <<thought>> \o history

\* this.thoughtHistory.push(validatedInput)
push(history, thought) == Append(history, thought)

takesBranch(thought) == Truthy(thought.branchFromThought) /\ Truthy(thought.branchId)

\* table[key] is truthy although table has no own entry key, so that no list is
\* created and table[key].push is not a function
inheritedEntry(table, key) == key \notin DOMAIN table /\ key \in ObjectPrototypeKeys

branchPushThrows(table, thought) ==
  takesBranch(thought) /\ inheritedEntry(table, thought.branchId.v)

\* this.branches after "Handle branching"
branchesAfter(table, thought) ==
  IF ~takesBranch(thought) THEN table
  ELSE LET key == thought.branchId.v
           before == IF key \in DOMAIN table THEN table[key] ELSE <<>>
       IN [k \in DOMAIN table \cup {key} |-> IF k = key THEN Append(before, thought) ELSE table[k]]

\* adjacencyList[number].push(dep): the edge entered under the dependent
pushDependency(adjacencyList, dep, number) ==
  [d \in DOMAIN adjacencyList \cup {number} |->
     IF d = number THEN Append(IF number \in DOMAIN adjacencyList THEN adjacencyList[number] ELSE <<>>, dep)
     ELSE adjacencyList[d]]

\* adjacencyList[dep].push(number), the list created when there is none
pushDependent(adjacencyList, dep, number) ==
  [d \in DOMAIN adjacencyList \cup {dep} |->
     IF d = dep THEN Append(IF dep \in DOMAIN adjacencyList THEN adjacencyList[dep] ELSE <<>>, number)
     ELSE adjacencyList[d]]

\* thought.dependencies.forEach(dep => ...) from the i-th dependency on
RECURSIVE withDependencies(_, _, _)
withDependencies(adjacencyList, thought, i) ==
  IF i > Len(thought.dependencies.v) THEN adjacencyList
  ELSE withDependencies(pushDependent(adjacencyList, thought.dependencies.v[i], thought.thoughtNumber),
                        thought, i + 1)

\* thoughts.forEach(thought => ...) over the thoughts 1..n
RECURSIVE adjacencyUpTo(_, _)
adjacencyUpTo(thoughts, n) ==
  IF n = 0 THEN <<>>
  ELSE IF Truthy(thoughts[n].dependencies) /\ JLength(thoughts[n].dependencies) > 0
  THEN withDependencies(adjacencyUpTo(thoughts, n - 1), thoughts[n], 1)
  ELSE adjacencyUpTo(thoughts, n - 1)

\* GraphRenderer.generateDependencyGraph: the adjacency list, from a thought
\* number to the numbers of the thoughts that depend on it (for thoughts whose
\* dependencies are lists: see generateDependencyGraphThrows)
adjacencyList(thoughts) == adjacencyUpTo(thoughts, Len(thoughts))

\* GraphRenderer.generateDependencyGraph throws a TypeError: some thought of the
\* history has dependencies with a positive length and no forEach, or (in
\* groupThoughtsByBranch) a branchId that names an inherited entry
generateDependencyGraphThrows(thoughts) ==
  \E i \in 1..Len(thoughts) :
    \/ /\ Truthy(thoughts[i].dependencies)
       /\ JLength(thoughts[i].dependencies) > 0
       /\ thoughts[i].dependencies.t # "array"
    \/ /\ Truthy(thoughts[i].branchId)
       /\ thoughts[i].branchId.v \in ObjectPrototypeKeys

\* Math.floor(n / d) for d # 0
floorDiv(n, d) == IF d > 0 THEN n \div d ELSE (0 - n) \div (0 - d)

progressBarWidth == 50

\* createProgressBar throws a RangeError: repeat() of a negative count
createProgressBarThrows(thought) ==
  LET completed == floorDiv(progressBarWidth * thought.thoughtNumber, thought.totalThoughts)
  IN completed < 0 \/ progressBarWidth - completed < 0

phases == {"Planning", "Analysis", "Execution", "Verification"}

\* the names trackToolUsage iterates over (the characters of a string)
toolNames(toolsUsed) ==
  IF toolsUsed.t = "string" THEN toolsUsed.v
  ELSE [i \in 1..Len(toolsUsed.v) |-> toolsUsed.v[i].v]

trackTool(stats, tool, thought) ==
  LET before == IF tool \in DOMAIN stats THEN stats[tool]
                ELSE [usageCount |-> 0, thoughtsUsedIn |-> <<>>, phaseUsage |-> [p \in phases |-> 0]]
      after == [ usageCount |-> before.usageCount + 1,
                 thoughtsUsedIn |-> Append(before.thoughtsUsedIn, thought.thoughtNumber),
                 phaseUsage |-> [p \in phases |-> before.phaseUsage[p] + (IF thought.phase = JName(p) THEN 1 ELSE 0)] ]
  IN [k \in DOMAIN stats \cup {tool} |-> IF k = tool THEN after ELSE stats[k]]

\* the loop of trackToolUsage over tools[i..]: the statistics when it ends, and
\* whether it ended by a TypeError (an inherited entry has no thoughtsUsedIn)
RECURSIVE trackTools(_, _, _, _)
trackTools(stats, tools, i, thought) ==
  IF i > Len(tools) THEN [stats |-> stats, threw |-> FALSE]
  ELSE IF inheritedEntry(stats, tools[i]) THEN [stats |-> stats, threw |-> TRUE]
  ELSE trackTools(trackTool(stats, tools[i], thought), tools, i + 1, thought)

\* trackToolUsage: a truthy toolsUsed that is neither a list nor a string is not iterable
trackToolUsage(stats, thought) ==
  IF ~Truthy(thought.toolsUsed) \/ JLength(thought.toolsUsed) = 0 THEN [stats |-> stats, threw |-> FALSE]
  ELSE IF thought.toolsUsed.t \notin {"array", "string"} THEN [stats |-> stats, threw |-> TRUE]
  ELSE trackTools(stats, toolNames(thought.toolsUsed), 1, thought)

\* thoughtNumber / totalThoughts > numerator / denominator (totalThoughts # 0)
progressAbove(thought, numerator, denominator) ==
  IF thought.totalThoughts > 0
  THEN thought.thoughtNumber * denominator > numerator * thought.totalThoughts
  ELSE thought.thoughtNumber * denominator < numerator * thought.totalThoughts

\* suggestNextPhase with >= for > in the comparisons of the progress
suggestNextPhaseAtThreshold(currentThought) ==
  IF currentThought.phase = JName("Planning")
     /\ (progressAbove(currentThought, 2, 10) \/ currentThought.thoughtNumber * 10 = 2 * currentThought.totalThoughts)
  THEN JName("Analysis")
  ELSE IF currentThought.phase = JName("Analysis")
          /\ (progressAbove(currentThought, 4, 10) \/ currentThought.thoughtNumber * 10 = 4 * currentThought.totalThoughts)
  THEN JName("Execution")
  ELSE IF currentThought.phase = JName("Execution")
          /\ (progressAbove(currentThought, 8, 10) \/ currentThought.thoughtNumber * 10 = 8 * currentThought.totalThoughts)
  THEN JName("Verification")
  ELSE IF Truthy(currentThought.phase) THEN currentThought.phase ELSE JName("Execution")

\* suggestNextPhase: progress = thoughtNumber / totalThoughts
suggestNextPhase(currentThought) ==
  IF currentThought.phase = JName("Planning") /\ progressAbove(currentThought, 2, 10)
  THEN JName("Analysis")
  ELSE IF currentThought.phase = JName("Analysis") /\ progressAbove(currentThought, 4, 10)
  THEN JName("Execution")
  ELSE IF currentThought.phase = JName("Execution") /\ progressAbove(currentThought, 8, 10)
  THEN JName("Verification")
  ELSE IF Truthy(currentThought.phase) THEN currentThought.phase ELSE JName("Execution")

\* the keys `goal_${index}` of the goals 0, 1, 2, ...
goalKeys == <<"goal_0", "goal_1", "goal_2", "goal_3", "goal_4", "goal_5">>

\* the thoughts a goal needs for full coverage
coverageDenominator(promptMetadata) ==
  Max(2, IF promptMetadata.complexity = "simple" THEN 3
         ELSE IF promptMetadata.complexity = "medium" THEN 5 ELSE 8)

\* calculateGoalCoverage reading the relevance of the goals, promptRelevance.goals
calculateGoalCoverageFromGoals(history, promptMetadata) ==
  LET relevantThoughts == SelectSeq(history, LAMBDA t : /\ Truthy(t.promptRelevance)
                                                        /\ 2 * t.promptRelevance.v.goals > 1)
  IN [key \in {goalKeys[index] : index \in 1..Len(promptMetadata.goals)} |->
        Min(100, roundDiv(100 * Len(relevantThoughts), coverageDenominator(promptMetadata)))]

\* calculateGoalCoverage: for every goal the share of the thoughts whose
\* promptRelevance has an entry `goal_${index}` above 0.5, as a percentage
calculateGoalCoverage(history, promptMetadata) ==
  LET relevantThoughts(key) ==
        SelectSeq(history, LAMBDA t : /\ Truthy(t.promptRelevance)
                                      /\ key \in DOMAIN t.promptRelevance.v
                                      /\ 2 * t.promptRelevance.v[key] > 1)
  IN [key \in {goalKeys[index] : index \in 1..Len(promptMetadata.goals)} |->
        Min(100, roundDiv(100 * Len(relevantThoughts(key)), coverageDenominator(promptMetadata)))]

failed(error) == [NoResponse EXCEPT !.status = "failed", !.error = error]

\* the response of a call that reached the return statement
succeeded(thought, history, table, context) ==
  [ status |-> "ok", error |-> "",
    thoughtNumber |-> thought.thoughtNumber,
    totalThoughts |-> thought.totalThoughts,
    thoughtHistoryLength |-> Len(history),
    branches |-> DOMAIN table,
    phase |-> thought.phase,
    contradictions |-> thought.contradictions,
    assumptions |-> thought.assumptions,
    promptAlignment |-> thought.promptAlignment,
    promptRelevance |-> thought.promptRelevance,
    driftWarning |-> thought.driftWarning,
    suggestedCorrections |-> thought.suggestedCorrections,
    suggestedNextPhase |-> suggestNextPhase(thought),
    thoughtQuality |-> thought.quality,
    insightValue |-> thought.insightValue,
    goalCoverage |-> IF context.metadata = JNull THEN JUndef
                     ELSE JObj(calculateGoalCoverage(history, context.metadata.v)) ]

\* processThought from the push on: the three tables and the response.  An
\* exception after the push leaves what was done before it.
afterAnalysis(thought, context) ==
  LET history == push(thoughtHistory, thought)
      table == branchesAfter(branches, thought)
      outcome(tracked) ==
        IF branchPushThrows(branches, thought)
        THEN [ thoughtHistory |-> history, branches |-> branches,
               toolUsageStats |-> toolUsageStats, response |-> failed("TypeError") ]
        ELSE IF generateDependencyGraphThrows(history)
        THEN [ thoughtHistory |-> history, branches |-> table,
               toolUsageStats |-> toolUsageStats, response |-> failed("TypeError") ]
        ELSE IF createProgressBarThrows(thought)
        THEN [ thoughtHistory |-> history, branches |-> table,
               toolUsageStats |-> toolUsageStats, response |-> failed("RangeError") ]
        ELSE IF tracked.threw
        THEN [ thoughtHistory |-> history, branches |-> table,
               toolUsageStats |-> tracked.stats, response |-> failed("TypeError") ]
        ELSE [ thoughtHistory |-> history, branches |-> table,
               toolUsageStats |-> tracked.stats, response |-> succeeded(thought, history, table, context) ]
  IN outcome(trackToolUsage(toolUsageStats, thought))

\* processThought with the prompt context the handler left
processThought(input, context) ==
  LET unchanged(error) == [ thoughtHistory |-> thoughtHistory, branches |-> branches,
                            toolUsageStats |-> toolUsageStats, response |-> failed(error) ]
  IN IF input = JUndef THEN unchanged("TypeError")
     ELSE IF validationError(input.v) # "none" THEN unchanged(validationError(input.v))
     ELSE afterAnalysis(enhancedThought(validateThoughtData(input.v), thoughtHistory, context), context)

----------------------------------------------------------------------------
(* The handler of a "sequentialthinking" tool call *)

\* the handler calls initializePromptContext before processThought
initializesPrompt(args) == Truthy(args) /\ args.v.thoughtNumber = JNum(1)

\* PromptContext.initializeWithPrompt: originalPrompt is assigned, then analyzePrompt
\* runs, which throws a TypeError on a prompt without split()
initializeWithPrompt(context, prompt) ==
  IF TypeOf(prompt) # "string" THEN [context EXCEPT !.originalPrompt = prompt]
  ELSE [metadata |-> JObj(analyzePrompt(prompt.v)), originalPrompt |-> prompt]

CallTool(args) ==
  /\ Len(thoughtHistory) < MaxThoughts
  /\ request' = args
  /\ IF initializesPrompt(args) /\ TypeOf(args.v.thought) # "string"
     THEN \* the exception leaves the handler: processThought is not called
          /\ promptContext' = initializeWithPrompt(promptContext, args.v.thought)
          /\ response' = [NoResponse EXCEPT !.status = "exception", !.error = "TypeError"]
          /\ UNCHANGED <<thoughtHistory, branches, toolUsageStats>>
     ELSE \E context \in {IF initializesPrompt(args)
                          THEN initializeWithPrompt(promptContext, args.v.thought)
                          ELSE promptContext} :
            \E result \in {processThought(args, context)} :
              /\ promptContext' = context
              /\ thoughtHistory' = result.thoughtHistory
              /\ branches' = result.branches
              /\ toolUsageStats' = result.toolUsageStats
              /\ response' = result.response

----------------------------------------------------------------------------
(* Tool calls *)

FixCode == <<"f","i","x"," ","c","o","d","e">>
DoIt == <<"d","o"," ","i","t">>
DoNotFixCode == <<"d","o"," ","n","o","t"," ","f","i","x"," ","c","o","d","e">>

\* arguments with the required fields only
Args(thought, thoughtNumber, totalThoughts) ==
  JObj([ thought |-> thought, thoughtNumber |-> thoughtNumber, totalThoughts |-> totalThoughts,
         nextThoughtNeeded |-> JBool(TRUE), isRevision |-> JUndef, revisesThought |-> JUndef,
         branchFromThought |-> JUndef, branchId |-> JUndef, phase |-> JUndef,
         dependencies |-> JUndef, toolsUsed |-> JUndef, quality |-> JUndef,
         insightValue |-> JUndef, classification |-> JUndef ])

With(args, field, value) == JObj([args.v EXCEPT ![field] = value])

\* calls with a missing or mistyped required field, and calls that pass
\* validateThoughtData and fail later
RequestsValidation ==
  { JUndef,
    Args(JStr(FixCode), JNum(1), JNum(2)),
    Args(JUndef, JNum(2), JNum(2)),
    Args(JNum(7), JNum(1), JNum(2)),
    Args(JStr(DoIt), JUndef, JNum(2)),
    Args(JStr(DoIt), JStr(<<"2">>), JNum(2)),
    Args(JStr(DoIt), JNum(1), JUndef),
    Args(JStr(DoIt), JNum(2), JStr(<<"2">>)),
    With(Args(JStr(DoIt), JNum(2), JNum(2)), "nextThoughtNeeded", JUndef),
    With(Args(JStr(DoIt), JNum(2), JNum(2)), "nextThoughtNeeded", JNum(1)),
    With(Args(JStr(DoIt), JNum(2), JNum(2)), "dependencies", JStr(<<"1">>)),
    With(Args(JStr(DoIt), JNum(2), JNum(2)), "toolsUsed", JNum(3)) }

NextValidation == \E args \in RequestsValidation : CallTool(args)

SpecValidation == Init /\ [][NextValidation]_vars

\* calls that are all accepted: numbering, references, branches and tools
RequestsStore ==
  { Args(JStr(FixCode), JNum(1), JNum(2)),
    With(Args(JStr(DoIt), JNum(2), JNum(10)), "dependencies", JArr(<<1>>)),
    With(Args(JStr(DoNotFixCode), JNum(3), JNum(3)), "dependencies", JArr(<<1, 2>>)),
    With(With(Args(JStr(DoIt), JNum(1), JNum(2)), "isRevision", JBool(TRUE)), "revisesThought", JNum(1)),
    With(With(With(Args(JStr(FixCode), JNum(2), JNum(2)), "branchFromThought", JNum(1)),
              "branchId", JName("b")), "toolsUsed", JArr(<<JName("search")>>)) }

NextStore == \E args \in RequestsStore : CallTool(args)

SpecStore == Init /\ [][NextStore]_vars

\* calls that create the prompt profile, repeat thoughtNumber 1 and drift
RequestsPrompt ==
  { Args(JStr(FixCode), JNum(1), JNum(2)),
    Args(JStr(DoIt), JNum(1), JNum(2)),
    Args(JStr(DoIt), JNum(2), JNum(2)),
    Args(JStr(FixCode), JNum(2), JNum(2)),
    Args(JStr(DoNotFixCode), JNum(3), JNum(3)) }

NextPrompt == \E args \in RequestsPrompt : CallTool(args)

SpecPrompt == Init /\ [][NextPrompt]_vars

\* calls with classifications and revisions on similar and dissimilar texts
RequestsContradiction ==
  { With(Args(JStr(FixCode), JNum(1), JNum(3)), "classification", JName("hypothesis")),
    With(With(With(Args(JStr(FixCode), JNum(2), JNum(3)), "isRevision", JBool(TRUE)),
              "revisesThought", JNum(1)), "classification", JName("hypothesis")),
    With(Args(JStr(DoNotFixCode), JNum(3), JNum(3)), "classification", JName("conclusion")),
    With(With(With(Args(JStr(FixCode), JNum(4), JNum(4)), "isRevision", JBool(TRUE)),
              "revisesThought", JNum(3)), "classification", JName("conclusion")),
    With(Args(JStr(FixCode), JNum(5), JNum(5)), "classification", JName("conclusion")) }

NextContradiction == \E args \in RequestsContradiction : CallTool(args)

SpecContradiction == Init /\ [][NextContradiction]_vars

\* calls whose totalThoughts is below thoughtNumber, below the recommended
\* thought count, or above both, with and without a prompt profile
RequestsTotals ==
  { Args(JStr(FixCode), JNum(1), JNum(2)),
    Args(JStr(FixCode), JNum(1), JNum(20)),
    Args(JStr(DoIt), JNum(2), JNum(1)),
    Args(JStr(DoIt), JNum(9), JNum(3)),
    Args(JStr(DoNotFixCode), JNum(3), JNum(10)) }

NextTotals == \E args \in RequestsTotals : CallTool(args)

SpecTotals == Init /\ [][NextTotals]_vars

\* calls whose thoughtNumber or totalThoughts is zero or negative
RequestsRange ==
  { Args(JStr(FixCode), JNum(1), JNum(2)),
    Args(JStr(DoIt), JNum(0), JNum(2)),
    Args(JStr(DoIt), JNum(2), JNum(0)),
    Args(JStr(DoIt), JNum(0 - 1), JNum(0 - 2)),
    Args(JStr(DoIt), JNum(2), JNum(0 - 3)),
    Args(JStr(DoIt), JNum(0 - 2), JNum(3)) }

NextRange == \E args \in RequestsRange : CallTool(args)

SpecRange == Init /\ [][NextRange]_vars

\* calls with branches and tools: accepted ones, and ones that fail after the
\* thought is stored (toolsUsed that is no list, dependencies that is no list)
RequestsTables ==
  { With(Args(JStr(FixCode), JNum(1), JNum(2)), "toolsUsed", JArr(<<JName("search")>>)),
    With(With(With(Args(JStr(DoIt), JNum(2), JNum(2)), "branchFromThought", JNum(1)),
              "branchId", JName("b")), "toolsUsed", JArr(<<JName("search"), JName("read")>>)),
    With(With(With(Args(JStr(DoNotFixCode), JNum(3), JNum(3)), "branchFromThought", JNum(1)),
              "branchId", JName("b")), "toolsUsed", JNum(3)),
    With(With(Args(JStr(DoIt), JNum(2), JNum(2)), "dependencies", JStr(<<"1">>)),
         "toolsUsed", JArr(<<JName("search")>>)),
    With(With(Args(JStr(FixCode), JNum(3), JNum(3)), "phase", JName("Review")),
         "toolsUsed", JArr(<<JName("read")>>)) }

NextTables == \E args \in RequestsTables : CallTool(args)

SpecTables == Init /\ [][NextTables]_vars

\* calls whose texts state assumptions that negate each other, conclusions with
\* and without a negation word on similar and dissimilar texts, and a hypothesis
ClearlySafeCode == <<"c","l","e","a","r","l","y"," ","s","a","f","e"," ","c","o","d","e">>
ClearlyNotSafeCode == <<"c","l","e","a","r","l","y"," ","n","o","t"," ","s","a","f","e"," ","c","o","d","e">>
DoNot == <<"d","o"," ","n","o","t">>

RequestsSignals ==
  { Args(JStr(ClearlySafeCode), JNum(1), JNum(6)),
    Args(JStr(ClearlyNotSafeCode), JNum(2), JNum(6)),
    With(Args(JStr(FixCode), JNum(3), JNum(6)), "classification", JName("conclusion")),
    With(Args(JStr(DoNotFixCode), JNum(4), JNum(6)), "classification", JName("conclusion")),
    With(Args(JStr(DoNotFixCode), JNum(3), JNum(6)), "classification", JName("conclusion")),
    With(Args(JStr(FixCode), JNum(5), JNum(6)), "classification", JName("hypothesis")),
    With(Args(JStr(DoNot), JNum(6), JNum(6)), "classification", JName("conclusion")) }

NextSignals == \E args \in RequestsSignals : CallTool(args)

SpecSignals == Init /\ [][NextSignals]_vars

\* calls that begin with the prompt of scenario A, or with another prompt
ScenarioA == <<"I"," ","m","u","s","t"," ","w","r","i","t","e"," ","a"," ","P","y","t","h","o","n"," ","s","c","r","i","p","t"," ","t","h","a","t"," ","p","a","r","s","e","s"," ","C","S","V"," ","f","i","l","e","s","."," ","U","r","g","e","n","t",".">>

RequestsScenario ==
  { Args(JStr(ScenarioA), JNum(1), JNum(2)),
    Args(JStr(FixCode), JNum(1), JNum(2)),
    Args(JStr(DoIt), JNum(2), JNum(2)),
    Args(JStr(FixCode), JNum(2), JNum(2)),
    Args(JStr(DoNotFixCode), JNum(3), JNum(3)) }

NextScenario == \E args \in RequestsScenario : CallTool(args)

SpecScenario == Init /\ [][NextScenario]_vars

\* calls with and without a phase, at, below and above the progress at which
\* the next phase is suggested; one call supplies a quality and an insightValue
RequestsPhases ==
  { With(Args(JStr(FixCode), JNum(1), JNum(2)), "phase", JName("Planning")),
    With(Args(JStr(DoIt), JNum(2), JNum(10)), "phase", JName("Planning")),
    With(Args(JStr(DoIt), JNum(2), JNum(20)), "phase", JName("Planning")),
    With(Args(JStr(DoIt), JNum(5), JNum(10)), "phase", JName("Analysis")),
    Args(JStr(DoIt), JNum(8), JNum(10)),
    With(With(With(Args(JStr(DoIt), JNum(9), JNum(10)), "phase", JName("Execution")),
              "quality", JObj([qualityScore |-> 7])), "insightValue", JNum(7)),
    With(Args(JStr(DoIt), JNum(10), JNum(10)), "phase", JName("Review")) }

NextPhases == \E args \in RequestsPhases : CallTool(args)

SpecPhases == Init /\ [][NextPhases]_vars

----------------------------------------------------------------------------
(* Calls of the analysers on their own: request holds the arguments of the  *)
(* one call of a behaviour, response its result                             *)

\* a profile with the given keywords and goals (the other fields as analyzePrompt
\* leaves them for a prompt without indicators)
Profile(keywords, goals) ==
  [analyzePrompt(DoIt) EXCEPT !.keywords = keywords, !.goals = goals]

ProfileKeywords ==
  { <<>>,
    <<<<"c","o","d","e">>>>,
    <<<<"f","i","x">>, <<"c","o","d","e">>>>,
    <<<<"t","e","s","t">>, <<"l","a","t","e","r">>>>,
    <<<<"f","i","x">>, <<"c","o","d","e">>, <<"t","e","s","t">>, <<"d","o">>, <<"i","t">>, <<"n","o","t">>>>,
    <<<<"f">>, <<"i">>, <<"x">>, <<"c">>, <<"o">>, <<"d">>, <<"e">>, <<"f","i">>, <<"c","o">>, <<"d","e">>>> }

ProfileGoals ==
  { <<>>,
    <<<<"f","i","x"," ","c","o","d","e">>>>,
    <<<<"T","h","e"," ","g","o","a","l"," ","i","s"," ","t","o"," ","f","i","x"," ","t","h","e"," ","b","r","o","k","e","n"," ","c","o","d","e">>>>,
    <<<<"d","o"," ","i","t">>, <<"C","o","d","e">>>> }

AlignedThoughts == {FixCode, DoIt, DoNotFixCode, <<"F","i","x"," ","t","h","e"," ","b","r","o","k","e","n"," ","C","O","D","E",","," ","d","o"," ","i","t","!">>, <<"t","h","e">>}

\* PromptAnalyzer.analyzeThoughtAlignment(thought, promptMetadata)
AnalyzeThoughtAlignment(thought, promptMetadata) ==
  /\ response = NoResponse
  /\ request' = JObj([thought |-> JStr(thought), promptMetadata |-> JObj(promptMetadata)])
  /\ \E alignmentData \in {analyzeThoughtAlignment(thought, promptMetadata)} :
       response' = [NoResponse EXCEPT !.status = "alignment",
                                      !.promptAlignment = JNum(alignmentData.promptAlignment),
                                      !.promptRelevance = JObj(alignmentData.promptRelevance),
                                      !.driftWarning = alignmentData.driftWarning,
                                      !.suggestedCorrections = alignmentData.suggestedCorrections]
  /\ UNCHANGED <<thoughtHistory, branches, toolUsageStats, promptContext>>

NextAlignment ==
  \E thought \in AlignedThoughts, keywords \in ProfileKeywords, goals \in ProfileGoals :
    AnalyzeThoughtAlignment(thought, Profile(keywords, goals))

SpecAlignment == Init /\ [][NextAlignment]_vars

\* SemanticAnalyzer.compareThoughtToPromptRequirements(thought, promptMetadata)
CompareThoughtToPromptRequirements(thought, promptMetadata) ==
  /\ response = NoResponse
  /\ request' = JObj([thought |-> JObj(thought), promptMetadata |-> JObj(promptMetadata)])
  /\ response' = [NoResponse EXCEPT !.status = "requirements",
                                    !.promptRequirements =
                                       JObj(compareThoughtToPromptRequirements(thought, promptMetadata))]
  /\ UNCHANGED <<thoughtHistory, branches, toolUsageStats, promptContext>>

FixItDontDoIt == <<"f","i","x"," ","i","t","."," ","d","o","n","'","t"," ","d","o"," ","i","t">>
FixItCantDoIt == <<"f","i","x"," ","i","t","."," ","y","o","u"," ","c","a","n","'","t"," ","d","o"," ","i","t">>
FourAims == <<"a","i","m"," ","i","s"," ","a","."," ","a","i","m"," ","i","s"," ","b","."," ","a","i","m"," ","i","s"," ","c","."," ","a","i","m"," ","i","s"," ","d">>
FourAimsWithCode == <<"a","i","m"," ","i","s"," ","a","."," ","a","i","m"," ","i","s"," ","b","."," ","a","i","m"," ","i","s"," ","c","."," ","a","i","m"," ","i","s"," ","c","o","d","e"," ","f","i","x">>
GoalAndMust == <<"T","h","e"," ","g","o","a","l"," ","i","s"," ","t","o"," ","f","i","x"," ","c","o","d","e","."," ","I","t"," ","m","u","s","t"," ","b","e"," ","f","a","s","t">>
WantAndMust == <<"w","a","n","t"," ","t","o"," ","f","i","x"," ","c","o","d","e","."," ","m","u","s","t"," ","t","e","s","t"," ","c","o","d","e">>

RequirementPrompts ==
  {FixItDontDoIt, FixItCantDoIt, FourAims, FourAimsWithCode, GoalAndMust, WantAndMust,
   FixCode, DoIt, DoNotFixCode, ScenarioA}

RequirementThoughts ==
  {FixCode, DoIt, DoNotFixCode, ScenarioA, <<"d","o","n","'","t"," ","d","o"," ","i","t">>, <<"a","i","m"," ","i","s"," ","a">>, <<"a","i","m"," ","i","s"," ","d">>,
   <<"i","t"," ","m","u","s","t"," ","b","e"," ","f","a","s","t">>, <<"t","e","s","t"," ","c","o","d","e">>, <<"f","i","x"," ","i","t">>, <<"a","i","m"," ","i","s"," ","a","."," ","a","i","m"," ","i","s"," ","b","."," ","a","i","m"," ","i","s"," ","c">>}

NextRequirements ==
  \E text \in RequirementThoughts, prompt \in RequirementPrompts :
    CompareThoughtToPromptRequirements([thought |-> text], analyzePrompt(prompt))

SpecRequirements == Init /\ [][NextRequirements]_vars

\* the longest list of thoughts given to clusterThoughtsByTopic
MaxClustered == 3

FixCodeUp == <<"f","i","x"," ","c","o","d","e"," ","u","p"," ","u","p"," ","u","p">>
FixCodeNo == <<"f","i","x"," ","c","o","d","e"," ","n","o"," ","n","o"," ","n","o">>
The == <<"t","h","e">>

ClusteredTexts == {FixCode, DoIt, DoNotFixCode, FixCodeUp, FixCodeNo, The}

\* the thoughts of a history with these texts, numbered as stored one by one
numbered(texts) == [n \in 1..Len(texts) |-> [thought |-> texts[n], thoughtNumber |-> n]] \o <<>>

\* SemanticAnalyzer.clusterThoughtsByTopic(thoughts)
ClusterThoughtsByTopic(thoughts) ==
  /\ response = NoResponse
  /\ request' = JArr(thoughts)
  /\ response' = [status |-> "clusters", clusters |-> clusterThoughtsByTopic(thoughts)]
  /\ UNCHANGED <<thoughtHistory, branches, toolUsageStats, promptContext>>

NextClustering ==
  \E n \in 1..MaxClustered : \E texts \in [1..n -> ClusteredTexts] :
    ClusterThoughtsByTopic(numbered(texts))

SpecClustering == Init /\ [][NextClustering]_vars

ComparedTexts ==
  { FixCode, DoIt, DoNotFixCode, FixCodeUp, FixCodeNo, The,
    <<"F","i","x"," ","t","h","e"," ","c","o","d","e">>, <<"c","o","d","e"," ","f","i","x">>, <<"t","h","i","s"," ","a","n","d"," ","t","h","a","t">>, <<".",".",".">>, <<"?","!">>,
    <<"b","u","g"," ","c","o","d","e"," ","t","e","s","t"," ","t","e","s","t">>, <<"t","e","s","t"," ","b","u","g"," ","c","o","d","e"," ","t","e","s","t"," ","t","e","s","t">>,
    <<"c","o","d","e"," ","f","i","x"," ","b","u","g"," ","t","e","s","t"," ","f","i","x">>, <<"t","e","s","t"," ","t","e","s","t"," ","t","e","s","t"," ","f","i","x"," ","c","o","d","e">> }

\* SemanticAnalyzer.analyzeSemanticSimilarity(thought1, thought2)
AnalyzeSemanticSimilarity(text1, text2) ==
  /\ response = NoResponse
  /\ request' = JObj([thought1 |-> JStr(text1), thought2 |-> JStr(text2)])
  /\ response' = [status |-> "similarity", similarity |-> analyzeSemanticSimilarity(text1, text2)]
  /\ UNCHANGED <<thoughtHistory, branches, toolUsageStats, promptContext>>

NextSimilarity ==
  \E text1 \in ComparedTexts, text2 \in ComparedTexts : AnalyzeSemanticSimilarity(text1, text2)

SpecSimilarity == Init /\ [][NextSimilarity]_vars

----------------------------------------------------------------------------
(* Properties of the tool *)

\* C1: a call in which a required field (thought, thoughtNumber, totalThoughts,
\* nextThoughtNeeded) is missing or has the wrong type is answered by the error
\* object with status "failed", and the thought list, the branch table and the
\* tool statistics stay as they were.
InvalidRequiredFieldIsRejected ==
  [][ (LET args == request'
       IN \/ args = JUndef
          \/ /\ args # JUndef
             /\ \/ TypeOf(args.v.thought) # "string"
                \/ TypeOf(args.v.thoughtNumber) # "number"
                \/ TypeOf(args.v.totalThoughts) # "number"
                \/ TypeOf(args.v.nextThoughtNeeded) # "boolean")
      => /\ response'.status = "failed"
         /\ UNCHANGED <<thoughtHistory, branches, toolUsageStats>> ]_vars

\* C2: a call answered with status "failed" leaves the thought list, the branch
\* table and the tool statistics unchanged (no partial append), also when the
\* required fields are valid and dependencies or toolsUsed is not a list.
FailedCallLeavesTables ==
  [][ response'.status = "failed"
      => UNCHANGED <<thoughtHistory, branches, toolUsageStats>> ]_vars

\* C3: every number in a stored thought's dependencies, its revisesThought and
\* its branchFromThought is the thoughtNumber of a thought stored before it.
ReferencesPointBack ==
  \A i \in 1..Len(thoughtHistory) :
    LET t == thoughtHistory[i]
        earlier == {thoughtHistory[k].thoughtNumber : k \in 1..(i - 1)}
    IN /\ t.dependencies.t = "array"
          => \A d \in 1..Len(t.dependencies.v) : t.dependencies.v[d] \in earlier
       /\ t.revisesThought.t = "number" => t.revisesThought.v \in earlier
       /\ t.branchFromThought.t = "number" => t.branchFromThought.v \in earlier

\* C4: among the stored thoughts that are not revisions, thoughtNumber strictly
\* increases in the order of submission.
NumbersIncrease ==
  \A i, j \in 1..Len(thoughtHistory) :
    /\ i < j
    /\ ~Truthy(thoughtHistory[i].isRevision)
    /\ ~Truthy(thoughtHistory[j].isRevision)
    => thoughtHistory[i].thoughtNumber < thoughtHistory[j].thoughtNumber

\* C5: the totalThoughts recorded for (and returned to) an accepted submission is
\* never below the totalThoughts of an earlier accepted submission.
TotalNeverDecreases ==
  \A i, j \in 1..Len(thoughtHistory) :
    i < j => thoughtHistory[i].totalThoughts <= thoughtHistory[j].totalThoughts

\* C6: once the prompt profile exists, no later call changes it, also not a call
\* with thoughtNumber 1.
ProfileNeverChanges ==
  [][ promptContext.metadata # JNull
      => promptContext'.metadata = promptContext.metadata ]_vars

\* C7: a call answered with the validation error object leaves the prompt
\* profile as it was (absent stays absent), also with thoughtNumber 1.
RejectedCallKeepsProfile ==
  [][ (/\ request' # JUndef
       /\ validationError(request'.v) # "none"
       /\ response'.status = "failed")
      => promptContext'.metadata = promptContext.metadata ]_vars

\* C8: an accepted submission adds exactly one thought, at the end of the list:
\* the returned thoughtHistoryLength is the previous length plus one and the
\* thoughts stored before are unchanged in every field.
AppendOnly ==
  [][ response'.status = "ok"
      => /\ Len(thoughtHistory') = Len(thoughtHistory) + 1
         /\ SubSeq(thoughtHistory', 1, Len(thoughtHistory)) = thoughtHistory
         /\ response'.thoughtHistoryLength = Len(thoughtHistory) + 1 ]_vars

\* C8 happens: a thought was accepted after a thought that carries an alignment
\* score and a revision that was stored before it.
AppendedAfterAnalysedThoughts ==
  /\ Len(thoughtHistory) >= 3
  /\ response.status = "ok"
  /\ response.thoughtHistoryLength = Len(thoughtHistory)
  /\ thoughtHistory[1].promptAlignment # JUndef
  /\ thoughtHistory[1] # thoughtHistory[Len(thoughtHistory)]
  /\ \E i \in 1..(Len(thoughtHistory) - 1) : Truthy(thoughtHistory[i].isRevision)

\* C9: a revision receives no contradiction entries, and the thoughtNumber of
\* every entry is that of a thought stored earlier that is not a revision (read
\* on thoughts, since two stored thoughts may carry the same number).
RevisionsNeverContradict ==
  \A i \in 1..Len(thoughtHistory) :
    LET t == thoughtHistory[i]
    IN /\ Truthy(t.isRevision) => t.contradictions = JUndef
       /\ t.contradictions # JUndef
          => \A e \in 1..Len(t.contradictions.v) :
               \E k \in 1..(i - 1) :
                 /\ thoughtHistory[k].thoughtNumber = t.contradictions.v[e].thoughtNumber
                 /\ ~Truthy(thoughtHistory[k].isRevision)

\* C9 happens: a thought has contradiction entries while a revision stored before
\* it would contradict it, and a stored revision contradicts an earlier thought.
RevisionSkippedInContradictions ==
  /\ \E j, k \in 1..Len(thoughtHistory) :
       /\ j < k
       /\ Truthy(thoughtHistory[j].isRevision)
       /\ thoughtHistory[k].contradictions # JUndef
       /\ detectContradiction(thoughtHistory[k], thoughtHistory[j]) # JUndef
  /\ \E j, k \in 1..Len(thoughtHistory) :
       /\ j < k
       /\ Truthy(thoughtHistory[k].isRevision)
       /\ ~Truthy(thoughtHistory[j].isRevision)
       /\ thoughtHistory[j].thoughtNumber # thoughtHistory[k].thoughtNumber
       /\ detectContradiction(thoughtHistory[k], thoughtHistory[j]) # JUndef

\* C10: an accepted thought carries a driftWarning exactly when its drift score
\* against the prompt profile, 1 - (0.4 goal relevance + 0.3 keyword relevance
\* + 0.1 domain relevance + 0.2 keyword overlap), is above 0.55.
DriftWarningIffDriftScore ==
  (response.status = "ok" /\ promptContext.metadata # JNull)
  => LET thought == thoughtHistory[Len(thoughtHistory)]
     IN (response.driftWarning # JUndef)
        <=> detectTopicDrift(thought.thought, promptContext.metadata.v).hasDrift

\* C11: the alignment score of any thought against any profile (any number of
\* keywords and goals, none included) is a number from 0 to 10.
AlignmentScoreInRange ==
  response.status = "alignment"
  => /\ response.promptAlignment.t = "number"
     /\ response.promptAlignment.v \in 0..10

\* C11 happens: a thought matches more keywords than the keyword score counts
\* and a keyword of a goal, and its score is the largest the formula yields.
AlignmentScoreAtItsCap ==
  /\ response.status = "alignment"
  /\ keywordMatchCount(toLowerCase(request.v.thought.v), request.v.promptMetadata.v.keywords) >= 9
  /\ bestGoalMatch(toLowerCase(request.v.thought.v), request.v.promptMetadata.v.goals).m > 0
  /\ response.promptAlignment.v = 9

\* C12: the clusters are a partition of the thoughts given (every thought is in
\* exactly one cluster, once), and a thought whose similarity to every other
\* thought is at most 0.6 is alone in its cluster
ClustersArePartition ==
  response.status = "clusters" =>
    LET thoughts == request.v
        clusters == response.clusters
        places(i) == {p \in (1..Len(clusters)) \X (1..Len(thoughts)) :
                        /\ p[2] <= Len(clusters[p[1]].cluster)
                        /\ clusters[p[1]].cluster[p[2]] = thoughts[i]}
    IN \A i \in 1..Len(thoughts) :
         /\ Cardinality(places(i)) = 1
         /\ (\A j \in 1..Len(thoughts) \ {i} :
               ~lessThan(clusterThreshold,
                         analyzeSemanticSimilarity(thoughts[i].thought, thoughts[j].thought)))
            => \E c \in 1..Len(clusters) : clusters[c].cluster = <<thoughts[i]>>

\* C13: the similarity of two thoughts does not depend on their order:
\* similarity(a, b) = similarity(b, a)
SimilarityIsSymmetric ==
  response.status = "similarity"
    => response.similarity = analyzeSemanticSimilarity(request.v.thought2.v, request.v.thought1.v)

\* C14: the similarity of a thought to itself is 1.0, also for a text made only
\* of stopwords or only of punctuation
SelfSimilarityIsOne ==
  (response.status = "similarity" /\ request.v.thought1 = request.v.thought2)
    => response.similarity = One

\* C16: the totalThoughts recorded for and returned to an accepted submission is
\* the maximum of the submitted totalThoughts, the submitted thoughtNumber and,
\* when there is a prompt profile, the recommended thought count; it is not
\* below the submitted totalThoughts
TotalIsMaximum ==
  [][LET submitted == request'.v
         raised == Max(submitted.totalThoughts.v, submitted.thoughtNumber.v)
         expected == IF promptContext'.metadata = JNull THEN raised
                     ELSE Max(raised, recommendedThoughtCount(promptContext'.metadata.v))
     IN /\ Len(thoughtHistory') > Len(thoughtHistory)
             => /\ thoughtHistory'[Len(thoughtHistory')].totalThoughts = expected
                /\ expected >= submitted.totalThoughts.v
        /\ response'.status = "ok" => response'.totalThoughts = expected]_vars

\* a submission with a profile whose totalThoughts is below the recommended
\* thought count and is raised to its thoughtNumber, the largest of the three
TotalRaisedToThoughtNumber ==
  /\ response.status = "ok"
  /\ request.v.thoughtNumber.v > request.v.totalThoughts.v
  /\ response.totalThoughts = request.v.thoughtNumber.v
  /\ promptContext.metadata # JNull
  /\ recommendedThoughtCount(promptContext.metadata.v) > request.v.totalThoughts.v

\* C17: a submission is accepted only with thoughtNumber >= 1 and
\* totalThoughts >= 1, so both are at least 1 in every stored thought
OnlyPositiveNumbersAccepted ==
  /\ response.status = "ok"
       => request.v.thoughtNumber.v >= 1 /\ request.v.totalThoughts.v >= 1
  /\ \A i \in 1..Len(thoughtHistory) :
       thoughtHistory[i].thoughtNumber >= 1 /\ thoughtHistory[i].totalThoughts >= 1

\* C18: every call of the tool ends with a response, the guidance bundle or
\* the error object: no exception leaves the handler
EveryCallIsAnswered ==
  request # JUndef \/ response # NoResponse => response.status \in {"ok", "failed"}

\* C19: the branch table changes only by an accepted submission that declares
\* branchFromThought and branchId: the entry of that branchId is created if
\* there was none and the accepted thought is appended to it; the other
\* entries, and the table in every other call, stay as they were
BranchTableListsAcceptedThoughts ==
  [][IF /\ response'.status = "ok"
        /\ Truthy(request'.v.branchFromThought)
        /\ Truthy(request'.v.branchId)
     THEN LET id == request'.v.branchId.v
              before == IF id \in DOMAIN branches THEN branches[id] ELSE <<>>
          IN /\ DOMAIN branches' = DOMAIN branches \cup {id}
             /\ branches'[id] = Append(before, thoughtHistory'[Len(thoughtHistory')])
             /\ \A k \in DOMAIN branches \ {id} : branches'[k] = branches[k]
     ELSE branches' = branches]_vars

\* C20: for every tool, usageCount is the number of occurrences of the tool in
\* the toolsUsed of the stored thoughts, the length of its list of thought
\* numbers and the sum of its four per-phase counts
StatisticsFollowThoughts ==
  LET listed(thought) == IF thought.toolsUsed.t = "array" THEN toolNames(thought.toolsUsed) ELSE <<>>
      occurrences(tool) == sum([i \in 1..Len(thoughtHistory) |-> count(listed(thoughtHistory[i]), tool)])
      used == UNION {SeqToSet(listed(thoughtHistory[i])) : i \in 1..Len(thoughtHistory)}
  IN /\ DOMAIN toolUsageStats = used
     /\ \A tool \in DOMAIN toolUsageStats :
          /\ toolUsageStats[tool].usageCount = occurrences(tool)
          /\ toolUsageStats[tool].usageCount = Len(toolUsageStats[tool].thoughtsUsedIn)
          /\ toolUsageStats[tool].usageCount
               = toolUsageStats[tool].phaseUsage["Planning"] + toolUsageStats[tool].phaseUsage["Analysis"]
                 + toolUsageStats[tool].phaseUsage["Execution"] + toolUsageStats[tool].phaseUsage["Verification"]

\* C21: the assumption signal alone is sufficient: a thought that is no revision
\* and whose assumptions contain X has, for every thought stored before it that
\* is no revision, is more than 0.5 similar to it and assumes "not X" (or the
\* other way round, whatever the case of the letters), a contradiction entry
AssumptionConflictIsReported ==
  \A k \in 1..Len(thoughtHistory) : \A i \in 1..(k - 1) :
    LET submitted == thoughtHistory[k]
        stored == thoughtHistory[i]
    IN ( /\ ~Truthy(submitted.isRevision)
         /\ ~Truthy(stored.isRevision)
         /\ lessThan(contradictionSimilarity, analyzeSemanticSimilarity(submitted.thought, stored.thought))
         /\ Len(checkAssumptionConflicts(submitted, stored)) > 0 )
       => /\ submitted.contradictions # JUndef
          /\ \E e \in 1..Len(submitted.contradictions.v) :
               submitted.contradictions.v[e].thoughtNumber = stored.thoughtNumber

\* C22: a thought that is no revision and is classified "conclusion" has, for
\* every thought stored before it that is no revision, is classified
\* "conclusion", is more than 0.5 similar to it and differs from it in containing
\* a negation word, a contradiction entry with the explanation "Conflicting
\* conclusions detected"
ConflictingConclusionsAreReported ==
  \A k \in 1..Len(thoughtHistory) : \A i \in 1..(k - 1) :
    LET submitted == thoughtHistory[k]
        stored == thoughtHistory[i]
    IN ( /\ ~Truthy(submitted.isRevision)
         /\ ~Truthy(stored.isRevision)
         /\ submitted.classification = JName("conclusion")
         /\ stored.classification = JName("conclusion")
         /\ containsNegation(submitted.thought) # containsNegation(stored.thought)
         /\ lessThan(contradictionSimilarity, analyzeSemanticSimilarity(submitted.thought, stored.thought)) )
       => /\ submitted.contradictions # JUndef
          /\ \E e \in 1..Len(submitted.contradictions.v) :
               /\ submitted.contradictions.v[e].thoughtNumber = stored.thoughtNumber
               /\ submitted.contradictions.v[e].explanation.t = "Conflicting conclusions detected"

\* the signal of detectContradiction that matches first, read on the stored
\* assumptions: the explanation the claim expects, JUndef when no signal matches
firstSignal(submitted, stored) ==
  IF hasOpposingClassifications(submitted, stored)
  THEN "Opposing classifications"
  ELSE IF hasConflictingConclusions(submitted, stored)
  THEN "Conflicting conclusions detected"
  ELSE IF Len(checkAssumptionConflicts(submitted, stored)) > 0
  THEN "Conflicting assumptions"
  ELSE "none"

\* the entries of a thought for a thoughtNumber
entriesFor(thought, number) ==
  IF thought.contradictions = JUndef THEN <<>>
  ELSE SelectSeq(thought.contradictions.v, LAMBDA entry : entry.thoughtNumber = number)

\* C29: for each thought stored before it that is no revision and has another
\* thoughtNumber, a thought that is no revision has exactly one contradiction
\* entry when their similarity is above 0.5 and a signal matches, with the
\* explanation of the first matching signal (opposing classifications, then
\* conflicting conclusions, then conflicting assumptions), and no entry otherwise.
\* Entries are counted per stored thought: stored thoughts sharing a number
\* share the entries of that number.
OneEntryPerMatchingThought ==
  \A k \in 1..Len(thoughtHistory) :
    LET submitted == thoughtHistory[k]
        compared == {i \in 1..(k - 1) : /\ ~Truthy(thoughtHistory[i].isRevision)
                                        /\ thoughtHistory[i].thoughtNumber # submitted.thoughtNumber}
        matching(i) ==
          /\ lessThan(contradictionSimilarity,
                      analyzeSemanticSimilarity(submitted.thought, thoughtHistory[i].thought))
          /\ firstSignal(submitted, thoughtHistory[i]) # "none"
    IN ~Truthy(submitted.isRevision)
       => \A i \in compared :
            LET sameNumber == {j \in compared : thoughtHistory[j].thoughtNumber = thoughtHistory[i].thoughtNumber}
                entries == entriesFor(submitted, thoughtHistory[i].thoughtNumber)
            IN /\ Len(entries) = Cardinality({j \in sameNumber : matching(j)})
               /\ matching(i)
                  => \E e \in 1..Len(entries) :
                       entries[e].explanation.t = firstSignal(submitted, thoughtHistory[i])

\* C23: scenario A: the profile created from the first thought "I must write a
\* Python script that parses CSV files. Urgent." has taskType "technical",
\* priority "high" and a constraint, the sentence with "must write"
ScenarioAProfile ==
  ( /\ Len(thoughtHistory) = 1
    /\ request = Args(JStr(ScenarioA), JNum(1), JNum(2)) )
  => /\ promptContext.metadata # JNull
     /\ promptContext.metadata.v.taskType = "technical"
     /\ promptContext.metadata.v.priority = "high"
     /\ \E c \in 1..Len(promptContext.metadata.v.constraints) :
          includes(promptContext.metadata.v.constraints[c], <<"m","u","s","t"," ","w","r","i","t","e">>)

\* C24: scenario C: against any profile, a thought whose text contains none of
\* the profile's keywords and no keyword of any goal has an alignment score of
\* at most 4 and a driftWarning
UnrelatedThoughtDrifts ==
  response.status = "alignment"
  => LET thoughtLower == toLowerCase(request.v.thought.v)
         profile == request.v.promptMetadata.v
     IN ( /\ keywordMatchCount(thoughtLower, profile.keywords) = 0
          /\ \A g \in 1..Len(profile.goals) :
               keywordMatchCount(thoughtLower, longWords(profile.goals[g])) = 0 )
        => /\ response.promptAlignment.v <= 4
           /\ response.driftWarning # JUndef

\* C24 happens: the profile has keywords and a goal with keywords, the thought
\* contains none of them, its score is 1 and it carries the warning
UnrelatedThoughtScoresOne ==
  /\ response.status = "alignment"
  /\ Len(request.v.promptMetadata.v.keywords) > 0
  /\ \E g \in 1..Len(request.v.promptMetadata.v.goals) :
       Len(longWords(request.v.promptMetadata.v.goals[g])) > 0
  /\ keywordMatchCount(toLowerCase(request.v.thought.v), request.v.promptMetadata.v.keywords) = 0
  /\ \A g \in 1..Len(request.v.promptMetadata.v.goals) :
       keywordMatchCount(toLowerCase(request.v.thought.v), longWords(request.v.promptMetadata.v.goals[g])) = 0
  /\ response.promptAlignment = JNum(1)
  /\ response.driftWarning # JUndef

\* C25: scenario D in general: after a thought n is accepted with the
\* dependencies D, the adjacency list of the dependency graph built from the
\* thought list (from a thought number to its dependents) lists n under every
\* thought number of D
DependentsAreListed ==
  response.status = "ok"
  => \A i \in 1..Len(thoughtHistory) :
       Truthy(thoughtHistory[i].dependencies)
       => \A d \in 1..Len(thoughtHistory[i].dependencies.v) :
            LET dep == thoughtHistory[i].dependencies.v[d]
                graph == adjacencyList(thoughtHistory)
            IN /\ dep \in DOMAIN graph
               /\ thoughtHistory[i].thoughtNumber \in SeqToSet(graph[dep])

\* C25 happens: thought 3 with the dependencies [1, 2] was accepted after
\* thoughts 1 and 2, and is listed under both
ThoughtThreeUnderOneAndTwo ==
  /\ response.status = "ok"
  /\ Len(thoughtHistory) = 3
  /\ thoughtHistory[1].thoughtNumber = 1
  /\ thoughtHistory[2].thoughtNumber = 2
  /\ thoughtHistory[3].thoughtNumber = 3
  /\ thoughtHistory[3].dependencies = JArr(<<1, 2>>)
  /\ adjacencyList(thoughtHistory) = (1 :> <<2, 3>>) @@ (2 :> <<3>>)

\* C26: the store suggests a phase and forces none.  With progress =
\* thoughtNumber / totalThoughts of the accepted thought, suggestedNextPhase is
\* Analysis for the phase Planning above 0.2, Execution for Analysis above 0.4,
\* Verification for Execution above 0.8, and the phase of the thought in every
\* other case; a phase the caller supplied is stored and returned as it is.
PhaseIsSuggestedNotForced ==
  response.status = "ok"
  => LET thought == thoughtHistory[Len(thoughtHistory)]
         above(tenths) ==
           IF response.totalThoughts > 0
           THEN 10 * response.thoughtNumber > tenths * response.totalThoughts
           ELSE 10 * response.thoughtNumber < tenths * response.totalThoughts
     IN /\ response.suggestedNextPhase =
             ( CASE response.phase = JName("Planning") /\ above(2) -> JName("Analysis")
                 [] response.phase = JName("Analysis") /\ above(4) -> JName("Execution")
                 [] response.phase = JName("Execution") /\ above(8) -> JName("Verification")
                 [] OTHER -> response.phase )
        /\ Truthy(request.v.phase)
           => /\ thought.phase = request.v.phase
              /\ response.phase = request.v.phase

\* C26 happens: the last call supplied the phase Planning at a progress of
\* exactly 0.2 and was answered with Planning, after a call that supplied
\* Analysis above 0.4 and stored it
PlanningKeptAtOneFifth ==
  /\ response.status = "ok"
  /\ request.v.phase = JName("Planning")
  /\ 10 * response.thoughtNumber = 2 * response.totalThoughts
  /\ response.suggestedNextPhase = JName("Planning")
  /\ \E i \in 1..(Len(thoughtHistory) - 1) :
       /\ thoughtHistory[i].phase = JName("Analysis")
       /\ suggestNextPhase(thoughtHistory[i]) = JName("Execution")

\* C27: every accepted thought carries a computed qualityScore and insightValue,
\* and the response to its submission contains that quality assessment, also
\* when the caller supplied no quality fields
QualityIsAssessed ==
  response.status = "ok"
  => LET thought == thoughtHistory[Len(thoughtHistory)]
     IN /\ TypeOf(thought.quality) = "object"
        /\ TypeOf(thought.insightValue) = "number"
        /\ response.thoughtQuality = thought.quality
        /\ response.insightValue = thought.insightValue

MissingOnlyWhenAbsentAndImportant ==
  response.status = "requirements" =>
    LET thoughtText == request.v.thought.v.thought
        promptMetadata == request.v.promptMetadata.v
        missingAspects == response.promptRequirements.v.missingAspects
        reported == UNION {SeqToSet(missingAspects[i].aspects) : i \in 1..Len(missingAspects)}
        isKeyword(aspect) ==
          \E i \in 1..Len(promptMetadata.keywords) :
            \/ includes(promptMetadata.keywords[i], aspect)
            \/ includes(aspect, promptMetadata.keywords[i])
            \/ calculatePhraseRelevance(promptMetadata.keywords[i], aspect) > (8 * Scale) \div 10
        isAmongFirstGoals(aspect) ==
          \E i \in 1..Min(3, Len(promptMetadata.goals)) : promptMetadata.goals[i] = aspect
        sharesEntity(aspect) ==
          \E i \in 1..Len(promptMetadata.entities) :
            \/ includes(aspect, promptMetadata.entities[i])
            \/ calculatePhraseRelevance(promptMetadata.entities[i], aspect) > (9 * Scale) \div 10
    IN \A aspect \in reported :
         /\ ~includes(toLowerCase(thoughtText), toLowerCase(aspect))
         /\ calculateContextualAspectRelevance(thoughtText, <<aspect>>) <= presenceThreshold
         /\ isKeyword(aspect) \/ isAmongFirstGoals(aspect) \/ sharesEntity(aspect)

====
